---- MODULE Spec2Model ----
(***************************************************************************)
(* Model of the compromised-package scanner (index.cjs): blacklist load,   *)
(* the version matcher isCompromised, the node_modules walkers and the     *)
(* result aggregation; and of the earlier script, which reads a list of    *)
(* names and also scans package-lock.json.                                 *)
(*                                                                         *)
(* Strings are sequences of tokens.  A token is one character ("v", "0",   *)
(* "@", "/", "+") or a chunk of characters that stands for a whole word    *)
(* ("evil", "node_modules", "unknown").  The token alphabet is prefix-     *)
(* free, so prefix and equality tests on token sequences agree with the    *)
(* same tests on the JavaScript strings.                                   *)
(***************************************************************************)
EXTENDS Integers, Sequences, FiniteSets, TLC

VARIABLES
    pc,                       \* position of the script
    packageListFile,          \* compromised_packages.json: [state, packages]
    COMPROMISED_PACKAGES_MAP, \* Map name -> versions, in insertion order
    COMPROMISED_PACKAGES,     \* the earlier script: the array of names
    packageLock,              \* the earlier script: package-lock.json
    qName, qVersion,          \* the arguments of one isCompromised call
    normalizedVersion,        \* its local normalizedVersion
    qAnswer,                  \* what it returned
    dirs,                     \* the file system: inode -> directory or file
    targetDir,                \* CONFIG.targetDir, as an inode
    keyIndex,                 \* position of the forEach over the Map's keys
    stack,                    \* frames of the running recursive walk
    visitedPaths,             \* the Set shared by the calls of one walk
    walkResults,              \* what the running walk has pushed so far
    visitLog,                 \* history: real paths the walk has enumerated
    results,                  \* the results object
    reportWritten,            \* the report file was written
    exitCode,                 \* process exit code, -1 while running
    inputFile,                \* extract_packages.cjs: npm_black_list.txt
    lines,                    \* its lines
    lineIndex,                \* position of lines.forEach
    extracted,                \* its packages array: the entries pushed so far
    packageSet,               \* the names pushed so far
    outputs                   \* the files it writes

legacyVars == <<COMPROMISED_PACKAGES, packageLock>>
matcherVars == <<qName, qVersion, normalizedVersion, qAnswer>>
walkVars == <<stack, visitedPaths, walkResults, visitLog>>
extractVars == <<inputFile, lines, lineIndex, extracted, packageSet, outputs>>
vars == <<pc, packageListFile, COMPROMISED_PACKAGES_MAP, legacyVars, matcherVars, dirs, targetDir,
          keyIndex, walkVars, results, reportWritten, exitCode, extractVars>>

----------------------------------------------------------------------------
(* Bounds of the model *)

\* longest version string, in characters
MaxVerLen == 3
\* most entries of the `packages` array of the blacklist file
MaxEntries == 2
\* longest chain of nested node_modules directories below the root one
MaxChain == 6
\* most frames the call stack of a walk can hold; a walk nests maxDepth + 1
\* calls
MaxStack == 7
\* most lines of a blacklist text
MaxLines == 3

----------------------------------------------------------------------------
(* Strings *)

\* all sequences over S of length lo..hi
SeqsOf(S, lo, hi) == UNION {[1..n -> S] : n \in lo..hi}

IsPrefix(p, s) == Len(p) <= Len(s) /\ SubSeq(s, 1, Len(p)) = p

\* the characters version strings are written with
VChars == {"v", "0", "1"}

UNKNOWN == <<"unknown">>

\* a JSON value that is no string (a number such as 1)
NUMBER == <<"#number">>

IsString(x) == x # NUMBER

VersionStrings == SeqsOf(VChars, 0, MaxVerLen) \cup {UNKNOWN}

EVIL == <<"evil">>
OTHERPKG == <<"other">>
SCOPED_EVIL == <<"@", "s", "/", "evil">>

----------------------------------------------------------------------------
(* Blacklist index *)

\* JavaScript Map (and object): a sequence of [key, value] with distinct
\* keys, in insertion order
MapHas(map, key) == \E i \in 1..Len(map) : map[i].key = key

MapGet(map, key) == map[CHOOSE i \in 1..Len(map) : map[i].key = key].value

\* a list of pairs that takes a key a second time
MapSet_append(map, key, value) == Append(map, [key |-> key, value |-> value])

MapSet(map, key, value) ==
    IF MapHas(map, key)
    THEN [i \in 1..Len(map) |->
            IF map[i].key = key THEN [key |-> key, value |-> value] ELSE map[i]]
    ELSE Append(map, [key |-> key, value |-> value])

MapKeys(map) == [i \in 1..Len(map) |-> map[i].key]

\* s.replace(/v/, ''): the pattern without its ^ anchor, which removes the
\* first v wherever it stands
RECURSIVE replaceFirstV(_)
replaceFirstV(s) ==
    IF s = <<>> THEN s
    ELSE IF s[1] = "v" THEN Tail(s)
    ELSE <<s[1]>> \o replaceFirstV(Tail(s))

\* no replace at all: the string as it is
replaceNothing(s) == s

\* s.replace(/^v/, '')
replaceLeadingV(s) == IF Len(s) > 0 /\ s[1] = "v" THEN Tail(s) ELSE s

\* pkg.versions.map((v) => v.replace(/^v/, ''))
normalizedVersions(versions) ==
    [i \in 1..Len(versions) |-> replaceLeadingV(versions[i])]

\* the forEach over COMPROMISED_PACKAGES_DATA.packages, from entry i on
RECURSIVE LoadFrom(_, _, _)
LoadFrom(packages, i, map) ==
    IF i > Len(packages) THEN map
    ELSE LoadFrom(packages, i + 1,
                  MapSet(map, packages[i].name, normalizedVersions(packages[i].versions)))

LoadMap(packages) == LoadFrom(packages, 1, <<>>)

Includes(arr, x) == \E i \in 1..Len(arr) : arr[i] = x

\* the body of isCompromised matching on the first version component only
\* (a range match)
isCompromisedIn_range(map, packageName, version) ==
    /\ MapHas(map, packageName)
    /\ \E i \in 1..Len(MapGet(map, packageName)) :
          LET c == MapGet(map, packageName)[i]
              n == replaceLeadingV(version)
          IN  c = n \/ (Len(c) > 0 /\ Len(n) > 0 /\ c[1] = n[1])

\* the body of isCompromised, the Map it reads made a parameter: the value
\* it returns when it returns
isCompromisedIn(map, packageName, version) ==
    /\ MapHas(map, packageName)
    /\ Includes(MapGet(map, packageName), replaceLeadingV(version))

isCompromised(packageName, version) ==
    isCompromisedIn(COMPROMISED_PACKAGES_MAP, packageName, version)

\* isCompromised: version.replace raises a TypeError when version is no string
isCompromisedThrows(packageName, version) ==
    /\ MapHas(COMPROMISED_PACKAGES_MAP, packageName)
    /\ ~IsString(version)

----------------------------------------------------------------------------
(* File system *)

\* no inode: what a path that does not exist resolves to
NONE == <<"none", 0>>

NODE_MODULES == <<"node_modules">>
PNPM == <<".pnpm">>

\* path.join(p, name)
join(p, name) == p \o <<"/">> \o name

\* no string starts with another
startsWith_never(s, p) == FALSE

\* String.prototype.startsWith
startsWith(s, p) == IsPrefix(p, s)

\* no replacement: the string as it is
replaceFirst_none(s, a, b) == s

\* s.replace(a, b) with a string pattern: the first occurrence only
RECURSIVE replaceFirst(_, _, _)
replaceFirst(s, a, b) ==
    IF s = <<>> THEN s
    ELSE IF s[1] = a THEN <<b>> \o Tail(s)
    ELSE <<s[1]>> \o replaceFirst(Tail(s), a, b)

\* the components of a relative path, split at "/"
RECURSIVE Components(_)
Components(s) ==
    IF \A i \in 1..Len(s) : s[i] # "/" THEN <<s>>
    ELSE LET k == CHOOSE i \in 1..Len(s) :
                      s[i] = "/" /\ \A h \in 1..(i - 1) : s[h] # "/"
         IN  <<SubSeq(s, 1, k - 1)>> \o Components(SubSeq(s, k + 1, Len(s)))

\* Dirent.isDirectory() || Dirent.isSymbolicLink()
isDirectoryOrSymbolicLink(entry) == entry.kind \in {"dir", "link"}

\* Dirent.isDirectory() alone: symbolic links are not considered
isDirectoryOnly(entry) == entry.kind = "dir"

\* fs.readdirSync(path) throws: the path is no directory or cannot be read
readdirFails(d) == d = NONE \/ ~dirs[d].isDir \/ ~dirs[d].readable

\* the inode of path.join(p, name), where d is the inode of p
Lookup(d, name) ==
    IF d = NONE \/ ~dirs[d].isDir THEN NONE
    ELSE LET hits == {i \in 1..Len(dirs[d].entries) : dirs[d].entries[i].name = name}
         IN  IF hits = {} THEN NONE ELSE dirs[d].entries[CHOOSE i \in hits : TRUE].to

RECURSIVE LookupPath(_, _)
LookupPath(d, names) ==
    IF names = <<>> THEN d ELSE LookupPath(Lookup(d, Head(names)), Tail(names))

\* absent from the JSON object
ABSENT == <<"#undefined">>

\* the values JavaScript's || takes the right-hand side for
Falsy(x) == x \in {ABSENT, <<>>}

\* the version variable left as it is declared, without its 'unknown'
manifestVersion_undefined(d) ==
    IF d = NONE \/ ~dirs[d].isDir \/ dirs[d].manifest.state # "ok" THEN ABSENT
    ELSE dirs[d].manifest.version

\* the version a package directory declares: package.json read and parsed,
\* 'unknown' when it is missing, fails to parse or has no version
manifestVersion(d) ==
    IF d = NONE \/ ~dirs[d].isDir \/ dirs[d].manifest.state = "none" THEN UNKNOWN
    ELSE IF dirs[d].manifest.state \in {"bad", "unreadable"} THEN UNKNOWN
    ELSE IF Falsy(dirs[d].manifest.version) THEN UNKNOWN
    ELSE dirs[d].manifest.version

\* a reference that carries the depth of the outermost call
installedRef_depth0(path, version, depth) ==
    [path |-> path, version |-> version, depth |-> 0, type |-> "installed"]

installedRef(path, version, depth) ==
    [path |-> path, version |-> version, depth |-> depth, type |-> "installed"]

\* the for loop of findInPnpmDirectory from entry i on; sd is the inode of
\* pnpmPath
RECURSIVE pnpmLoop(_, _, _, _, _)
pnpmLoop(sd, pnpmPath, targetPackage, depth, i) ==
    IF i > Len(dirs[sd].entries) THEN <<>>
    ELSE LET entry == dirs[sd].entries[i]
             searchPattern == replaceFirst(targetPackage, "/", "+") \o <<"@">>
             packageInNodeModules ==
                 join(join(join(pnpmPath, entry.name), NODE_MODULES), targetPackage)
             pkg == LookupPath(entry.to, <<NODE_MODULES>> \o Components(targetPackage))
             hit == /\ isDirectoryOrSymbolicLink(entry)
                    /\ startsWith(entry.name, searchPattern)
                    /\ pkg # NONE
         IN  (IF hit
              THEN <<installedRef(packageInNodeModules, manifestVersion(pkg), depth)>>
              ELSE <<>>)
             \o pnpmLoop(sd, pnpmPath, targetPackage, depth, i + 1)

findInPnpmDirectory(sd, pnpmPath, targetPackage, depth) ==
    IF readdirFails(sd) THEN <<>> ELSE pnpmLoop(sd, pnpmPath, targetPackage, depth, 1)

----------------------------------------------------------------------------
(* The recursive walks.  A call is a frame [d, path, depth, i, j]: d the   *)
(* inode of nodeModulesPath, i the entry the for loop is at, j the child   *)
(* the inner loop of a scope directory is at (0 outside a scope).          *)

maxDepth == 5

\* depth > maxDepth
tooDeep(depth) == depth > maxDepth

\* visitedPaths.has(realPath), the check left out
alreadyVisited_never(realPath, visited) == FALSE

\* visitedPaths.has(realPath)
alreadyVisited(realPath, visited) == realPath \in visited

NoCall == [d |-> NONE, path |-> <<>>]

Top == stack[Len(stack)]

\* the entry of a walk with neither the depth check nor the cycle guard
EnterWalk_unguarded(stk, visited, log, d, path, depth) ==
    /\ visitedPaths' = IF d # NONE THEN visited \cup {d} ELSE visited
    /\ visitLog' = IF d # NONE THEN Append(log, d) ELSE log
    /\ stack' = IF d # NONE /\ ~readdirFails(d)
                THEN Append(stk, [d |-> d, path |-> path, depth |-> depth,
                                  i |-> 1, j |-> 0])
                ELSE stk

\* the entry of a walk, up to readdirSync: the depth and existence check,
\* the cycle guard, the directory read.  stk is the caller's stack, visited
\* the Set the call was given, log the history of the walk so far.
EnterWalk(stk, visited, log, d, path, depth) ==
    LET live == ~tooDeep(depth) /\ d # NONE
        fresh == live /\ ~alreadyVisited(d, visited)
    IN  /\ visitedPaths' = IF fresh THEN visited \cup {d} ELSE visited
        /\ visitLog' = IF fresh THEN Append(log, d) ELSE log
        /\ stack' = IF fresh /\ ~readdirFails(d)
                    THEN Append(stk, [d |-> d, path |-> path, depth |-> depth,
                                      i |-> 1, j |-> 0])
                    ELSE stk

\* one turn of the for loop of findPackageRecursively in frame f: what it
\* pushes, the recursive call it makes and where the loops stand after it
findPlan(f, targetPackage) ==
    LET entry == dirs[f.d].entries[f.i]
        entryPath == join(f.path, entry.name)
        skip == [emit |-> <<>>, call |-> NoCall, i |-> f.i + 1, j |-> 0]
    IN  IF ~isDirectoryOrSymbolicLink(entry) THEN skip
        ELSE IF entry.name = PNPM
        THEN [skip EXCEPT !.emit =
                 findInPnpmDirectory(entry.to, entryPath, targetPackage, f.depth + 1)]
        ELSE IF startsWith(entry.name, <<"@">>)
        THEN IF readdirFails(entry.to) \/ dirs[entry.to].entries = <<>> THEN skip
             ELSE LET scopedEntries == dirs[entry.to].entries
                      jj == IF f.j = 0 THEN 1 ELSE f.j
                      scopedEntry == scopedEntries[jj]
                      fullPackageName == entry.name \o <<"/">> \o scopedEntry.name
                      packagePath == join(entryPath, scopedEntry.name)
                      nestedNodeModules == join(packagePath, NODE_MODULES)
                      last == jj = Len(scopedEntries)
                      after == [emit |-> <<>>, call |-> NoCall,
                                i |-> IF last THEN f.i + 1 ELSE f.i,
                                j |-> IF last THEN 0 ELSE jj + 1]
                  IN  IF ~isDirectoryOrSymbolicLink(scopedEntry) THEN after
                      ELSE [after EXCEPT
                              !.emit = IF fullPackageName = targetPackage
                                       THEN <<installedRef(packagePath,
                                                manifestVersion(scopedEntry.to), f.depth)>>
                                       ELSE <<>>,
                              !.call = IF Lookup(scopedEntry.to, NODE_MODULES) # NONE
                                       THEN [d |-> Lookup(scopedEntry.to, NODE_MODULES),
                                             path |-> nestedNodeModules]
                                       ELSE NoCall]
        ELSE [skip EXCEPT
                !.emit = IF entry.name = targetPackage
                         THEN <<installedRef(entryPath, manifestVersion(entry.to), f.depth)>>
                         ELSE <<>>,
                !.call = IF Lookup(entry.to, NODE_MODULES) # NONE
                         THEN [d |-> Lookup(entry.to, NODE_MODULES),
                               path |-> join(entryPath, NODE_MODULES)]
                         ELSE NoCall]

\* the keys of b put after those of a, a key already there a second time
spread_append(obj, group) == obj \o group

\* {...a, ...b}: the keys of b put into a, a key already there keeps its place
RECURSIVE spread(_, _)
spread(obj, group) ==
    IF group = <<>> THEN obj
    ELSE spread(MapSet(obj, Head(group).key, Head(group).value), Tail(group))

allDeps(pkgJson) ==
    spread(spread(spread(spread(<<>>, pkgJson.dependencies), pkgJson.devDependencies),
                  pkgJson.peerDependencies), pkgJson.optionalDependencies)

\* the for loop over Object.keys(allDeps) from key i on
RECURSIVE depLoop(_, _, _, _, _, _)
depLoop(deps, i, compromisedPackages, packagePath, packageName, depth) ==
    IF i > Len(deps) THEN <<>>
    ELSE (IF Includes(compromisedPackages, deps[i].key)
          THEN <<[foundIn |-> packagePath, foundInPackageName |-> packageName,
                  compromisedPackage |-> deps[i].key, version |-> deps[i].value,
                  depth |-> depth, type |-> "dependency"]>>
          ELSE <<>>)
         \o depLoop(deps, i + 1, compromisedPackages, packagePath, packageName, depth)

\* the dependency references of the package.json of directory d, none when
\* the file is missing or fails to parse
manifestRefs(d, compromisedPackages, packagePath, packageName, depth) ==
    IF d = NONE \/ ~dirs[d].isDir \/ dirs[d].manifest.state # "ok" THEN <<>>
    ELSE depLoop(allDeps(dirs[d].manifest), 1, compromisedPackages,
                 packagePath, packageName, depth)

\* one turn of the for loop of scanPackageJsonDependencies in frame f
scanPlan(f, compromisedPackages) ==
    LET entry == dirs[f.d].entries[f.i]
        entryPath == join(f.path, entry.name)
        skip == [emit |-> <<>>, call |-> NoCall, i |-> f.i + 1, j |-> 0]
    IN  IF ~isDirectoryOrSymbolicLink(entry) THEN skip
        ELSE IF startsWith(entry.name, <<"@">>)
        THEN IF readdirFails(entry.to) \/ dirs[entry.to].entries = <<>> THEN skip
             ELSE LET scopedEntries == dirs[entry.to].entries
                      jj == IF f.j = 0 THEN 1 ELSE f.j
                      scopedEntry == scopedEntries[jj]
                      packageName == entry.name \o <<"/">> \o scopedEntry.name
                      packagePath == join(entryPath, scopedEntry.name)
                      nestedNodeModules == join(packagePath, NODE_MODULES)
                      last == jj = Len(scopedEntries)
                      after == [emit |-> <<>>, call |-> NoCall,
                                i |-> IF last THEN f.i + 1 ELSE f.i,
                                j |-> IF last THEN 0 ELSE jj + 1]
                  IN  IF ~isDirectoryOrSymbolicLink(scopedEntry) THEN after
                      ELSE [after EXCEPT
                              !.emit = manifestRefs(scopedEntry.to, compromisedPackages,
                                                    packagePath, packageName, f.depth),
                              !.call = IF Lookup(scopedEntry.to, NODE_MODULES) # NONE
                                       THEN [d |-> Lookup(scopedEntry.to, NODE_MODULES),
                                             path |-> nestedNodeModules]
                                       ELSE NoCall]
        ELSE [skip EXCEPT
                !.emit = manifestRefs(entry.to, compromisedPackages,
                                      entryPath, entry.name, f.depth),
                !.call = IF Lookup(entry.to, NODE_MODULES) # NONE
                         THEN [d |-> Lookup(entry.to, NODE_MODULES),
                               path |-> join(entryPath, NODE_MODULES)]
                         ELSE NoCall]

----------------------------------------------------------------------------
(* The script *)

\* the package the forEach over the Map's keys is at
pkg == COMPROMISED_PACKAGES_MAP[keyIndex].key

\* paths.nodeModules, as an inode
nodeModules == Lookup(targetDir, NODE_MODULES)

finding(package, version, path, depth, type, referencedBy) ==
    [package |-> package, version |-> version, path |-> path, depth |-> depth,
     type |-> type, referencedBy |-> referencedBy,
     compromisedVersions |-> MapGet(COMPROMISED_PACKAGES_MAP, package)]

\* foundInstances.forEach from instance i on: the findings pushed
RECURSIVE instancesLoop(_, _)
instancesLoop(foundInstances, i) ==
    IF i > Len(foundInstances) THEN <<>>
    ELSE (IF isCompromised(pkg, foundInstances[i].version)
          THEN <<finding(pkg, foundInstances[i].version, foundInstances[i].path,
                         foundInstances[i].depth, "installed", <<>>)>>
          ELSE <<>>)
         \o instancesLoop(foundInstances, i + 1)

\* depResults.forEach from i on
RECURSIVE depResultsLoop(_, _)
depResultsLoop(depResults, i) ==
    IF i > Len(depResults) THEN <<>>
    ELSE <<finding(depResults[i].compromisedPackage, depResults[i].version,
                   depResults[i].foundIn, depResults[i].depth,
                   "dependency-reference", depResults[i].foundInPackageName)>>
         \o depResultsLoop(depResults, i + 1)

\* a check of the declared range against the listed versions
RECURSIVE checkDeps_listedRange(_, _, _)
checkDeps_listedRange(deps, type, i) ==
    IF i > Len(deps) THEN <<>>
    ELSE (IF /\ MapHas(COMPROMISED_PACKAGES_MAP, deps[i].key)
             /\ Includes(MapGet(COMPROMISED_PACKAGES_MAP, deps[i].key), deps[i].value)
          THEN <<[package |-> deps[i].key, version |-> deps[i].value, type |-> type,
                  compromisedVersions |-> MapGet(COMPROMISED_PACKAGES_MAP, deps[i].key)]>>
          ELSE <<>>)
         \o checkDeps_listedRange(deps, type, i + 1)

\* checkDeps(deps, type) from key i on
RECURSIVE checkDeps(_, _, _)
checkDeps(deps, type, i) ==
    IF i > Len(deps) THEN <<>>
    ELSE (IF MapHas(COMPROMISED_PACKAGES_MAP, deps[i].key)
          THEN <<[package |-> deps[i].key, version |-> deps[i].value, type |-> type,
                  compromisedVersions |-> MapGet(COMPROMISED_PACKAGES_MAP, deps[i].key)]>>
          ELSE <<>>)
         \o checkDeps(deps, type, i + 1)

criticalLevel(found) ==
    IF Len(found.foundInNodeModules) > 0 THEN "critical"
    ELSE IF Len(found.foundInPackageJson) > 0 THEN "high"
    ELSE "none"

\* the process ends with exit code 0, whatever it is given
exit_zero(code) == pc' = "done" /\ exitCode' = 0

\* process.exit(code)
exit(code) == pc' = "done" /\ exitCode' = code

\* an exception nothing catches ends the process with code 1
uncaught == pc' = "uncaught" /\ exitCode' = 1

CheckTarget ==
    /\ pc = "start"
    /\ IF targetDir = NONE \/ ~dirs[targetDir].isDir
       THEN exit(1)
       ELSE pc' = "load" /\ UNCHANGED exitCode
    /\ UNCHANGED <<legacyVars, packageListFile, COMPROMISED_PACKAGES_MAP, matcherVars, dirs, targetDir,
                   keyIndex, walkVars, results, reportWritten>>
    /\ UNCHANGED extractVars

\* JSON.parse or the forEach building the Map throws: the text is not JSON,
\* there is no packages array, an entry has no versions array (pkg.versions.map)
\* or a version is not a string (v.replace)
loadThrows ==
    \/ packageListFile.state = "bad"
    \/ packageListFile.state = "nopackages"
    \/ \E i \in 1..Len(packageListFile.packages) :
          IF "versions" \notin DOMAIN packageListFile.packages[i] THEN TRUE
          ELSE \E h \in 1..Len(packageListFile.packages[i].versions) :
                  ~IsString(packageListFile.packages[i].versions[h])

LoadBlacklist ==
    /\ pc = "load"
    /\ IF packageListFile.state = "missing" \/ loadThrows
       THEN exit(1) /\ UNCHANGED COMPROMISED_PACKAGES_MAP
       ELSE /\ COMPROMISED_PACKAGES_MAP' = LoadMap(packageListFile.packages)
            /\ pc' = "node_modules"
            /\ UNCHANGED exitCode
    /\ UNCHANGED <<legacyVars, packageListFile, matcherVars, dirs, targetDir, keyIndex, walkVars,
                   results, reportWritten>>
    /\ UNCHANGED extractVars

NodeModulesExists ==
    /\ pc = "node_modules"
    /\ pc' = IF nodeModules # NONE THEN "keys" ELSE "package_json"
    /\ keyIndex' = 1
    /\ UNCHANGED <<legacyVars, packageListFile, COMPROMISED_PACKAGES_MAP, matcherVars, dirs, targetDir,
                   walkVars, results, reportWritten, exitCode>>
    /\ UNCHANGED extractVars

\* a search that goes on with the Set of the search before it
newVisitedPaths_kept == visitedPaths

\* the default of the parameter visitedPaths, evaluated at each call that
\* passes none: new Set()
newVisitedPaths == {}

\* findPackageRecursively(paths.nodeModules, pkg) is called
FindCall ==
    /\ pc = "keys"
    /\ keyIndex <= Len(COMPROMISED_PACKAGES_MAP)
    /\ pc' = "find"
    /\ walkResults' = <<>>
    /\ EnterWalk(<<>>, newVisitedPaths, <<>>, nodeModules, NODE_MODULES, 0)
    /\ UNCHANGED <<legacyVars, packageListFile, COMPROMISED_PACKAGES_MAP, matcherVars, dirs, targetDir,
                   keyIndex, results, reportWritten, exitCode>>
    /\ UNCHANGED extractVars

\* one turn of the for loop of the innermost findPackageRecursively call,
\* or its return
FindStep ==
    /\ pc = "find"
    /\ stack # <<>>
    /\ Len(stack) <= MaxStack
    /\ IF Top.i > Len(dirs[Top.d].entries)
       THEN /\ stack' = SubSeq(stack, 1, Len(stack) - 1)
            /\ UNCHANGED <<visitedPaths, walkResults, visitLog>>
       ELSE LET plan == findPlan(Top, pkg)
            IN  /\ walkResults' = walkResults \o plan.emit
                /\ EnterWalk([stack EXCEPT ![Len(stack)].i = plan.i,
                                           ![Len(stack)].j = plan.j],
                             visitedPaths, visitLog,
                             plan.call.d, plan.call.path, Top.depth + 1)
    /\ UNCHANGED <<pc, legacyVars, packageListFile, COMPROMISED_PACKAGES_MAP, matcherVars, dirs,
                   targetDir, keyIndex, results, reportWritten, exitCode>>
    /\ UNCHANGED extractVars

\* the outermost call has returned: foundInstances.forEach, which the first
\* instance isCompromised throws on ends, and the process with it
FindReturn ==
    /\ pc = "find"
    /\ stack = <<>>
    /\ IF \E i \in 1..Len(walkResults) : isCompromisedThrows(pkg, walkResults[i].version)
       THEN LET k == CHOOSE i \in 1..Len(walkResults) :
                        /\ isCompromisedThrows(pkg, walkResults[i].version)
                        /\ \A h \in 1..(i - 1) :
                              ~isCompromisedThrows(pkg, walkResults[h].version)
            IN  /\ results' = [results EXCEPT !.foundInNodeModules =
                                   @ \o instancesLoop(SubSeq(walkResults, 1, k - 1), 1)]
                /\ uncaught
                /\ UNCHANGED keyIndex
       ELSE /\ results' = [results EXCEPT !.foundInNodeModules =
                              @ \o instancesLoop(walkResults, 1)]
            /\ keyIndex' = keyIndex + 1
            /\ pc' = "keys"
            /\ UNCHANGED exitCode
    /\ UNCHANGED <<legacyVars, packageListFile, COMPROMISED_PACKAGES_MAP, matcherVars, dirs, targetDir,
                   walkVars, reportWritten>>
    /\ UNCHANGED extractVars

\* scanPackageJsonDependencies(paths.nodeModules, keys) is called
ScanCall ==
    /\ pc = "keys"
    /\ keyIndex > Len(COMPROMISED_PACKAGES_MAP)
    /\ pc' = "scan"
    /\ walkResults' = <<>>
    /\ EnterWalk(<<>>, {}, <<>>, nodeModules, NODE_MODULES, 0)
    /\ UNCHANGED <<legacyVars, packageListFile, COMPROMISED_PACKAGES_MAP, matcherVars, dirs, targetDir,
                   keyIndex, results, reportWritten, exitCode>>
    /\ UNCHANGED extractVars

ScanStep ==
    /\ pc = "scan"
    /\ stack # <<>>
    /\ Len(stack) <= MaxStack
    /\ IF Top.i > Len(dirs[Top.d].entries)
       THEN /\ stack' = SubSeq(stack, 1, Len(stack) - 1)
            /\ UNCHANGED <<visitedPaths, walkResults, visitLog>>
       ELSE LET plan == scanPlan(Top, MapKeys(COMPROMISED_PACKAGES_MAP))
            IN  /\ walkResults' = walkResults \o plan.emit
                /\ EnterWalk([stack EXCEPT ![Len(stack)].i = plan.i,
                                           ![Len(stack)].j = plan.j],
                             visitedPaths, visitLog,
                             plan.call.d, plan.call.path, Top.depth + 1)
    /\ UNCHANGED <<pc, legacyVars, packageListFile, COMPROMISED_PACKAGES_MAP, matcherVars, dirs,
                   targetDir, keyIndex, results, reportWritten, exitCode>>
    /\ UNCHANGED extractVars

\* depResults.forEach
ScanReturn ==
    /\ pc = "scan"
    /\ stack = <<>>
    /\ results' = [results EXCEPT !.foundInNodeModules = @ \o depResultsLoop(walkResults, 1)]
    /\ pc' = "package_json"
    /\ UNCHANGED <<legacyVars, packageListFile, COMPROMISED_PACKAGES_MAP, matcherVars, dirs, targetDir,
                   keyIndex, walkVars, reportWritten, exitCode>>
    /\ UNCHANGED extractVars

\* the root package.json: checkDeps on its four groups
CheckPackageJson ==
    /\ pc = "package_json"
    /\ LET packageJson == dirs[targetDir].manifest
       IN  results' =
             IF packageJson.state # "ok" THEN results
             ELSE [results EXCEPT !.foundInPackageJson =
                     @ \o checkDeps(packageJson.dependencies, "dependencies", 1)
                       \o checkDeps(packageJson.devDependencies, "devDependencies", 1)
                       \o checkDeps(packageJson.peerDependencies, "peerDependencies", 1)
                       \o checkDeps(packageJson.optionalDependencies,
                                    "optionalDependencies", 1)]
    /\ pc' = "summary"
    /\ UNCHANGED <<legacyVars, packageListFile, COMPROMISED_PACKAGES_MAP, matcherVars, dirs, targetDir,
                   keyIndex, walkVars, reportWritten, exitCode>>
    /\ UNCHANGED extractVars

Summary ==
    /\ pc = "summary"
    /\ LET totalIssues == Len(results.foundInNodeModules) + Len(results.foundInPackageJson)
       IN  results' = [results EXCEPT !.summary =
                         [safe |-> totalIssues = 0, totalIssues |-> totalIssues,
                          criticalLevel |-> criticalLevel(results)]]
    /\ pc' = "report"
    /\ UNCHANGED <<legacyVars, packageListFile, COMPROMISED_PACKAGES_MAP, matcherVars, dirs, targetDir,
                   keyIndex, walkVars, reportWritten, exitCode>>
    /\ UNCHANGED extractVars

\* fs.writeFileSync of the report; a failure is caught and logged
WriteReport ==
    /\ pc = "report"
    /\ \E written \in BOOLEAN : reportWritten' = written
    /\ pc' = "exit"
    /\ UNCHANGED <<legacyVars, packageListFile, COMPROMISED_PACKAGES_MAP, matcherVars, dirs, targetDir,
                   keyIndex, walkVars, results, exitCode>>
    /\ UNCHANGED extractVars

Exit ==
    /\ pc = "exit"
    /\ exit(IF results.summary.safe THEN 0 ELSE 1)
    /\ UNCHANGED <<legacyVars, packageListFile, COMPROMISED_PACKAGES_MAP, matcherVars, dirs, targetDir,
                   keyIndex, walkVars, results, reportWritten>>
    /\ UNCHANGED extractVars

----------------------------------------------------------------------------
(* The earlier script: a list of names with no versions, a package-lock    *)
(* scan, walks that follow no symbolic link entry and keep no visited set  *)

\* String.prototype.endsWith
endsWith(s, p) == Len(p) <= Len(s) /\ SubSeq(s, Len(s) - Len(p) + 1, Len(s)) = p

\* key.split('node_modules/').pop()
keyParts(key) ==
    LET cuts == {i \in 1..(Len(key) - 1) : key[i] = "node_modules" /\ key[i + 1] = "/"}
    IN  IF cuts = {} THEN key
        ELSE SubSeq(key, (CHOOSE i \in cuts : \A h \in cuts : h <= i) + 2, Len(key))

\* the forEach over Object.keys(packageLock.packages) from key i on, found
\* being results.foundInPackageLock
RECURSIVE lockKeysLoop(_, _, _, _)
lockKeysLoop(packages, pkgName, found, i) ==
    IF i > Len(packages) THEN found
    ELSE LET key == packages[i].key
             version == IF Falsy(packages[i].value.version) THEN UNKNOWN
                        ELSE packages[i].value.version
             hit == keyParts(key) = pkgName \/ endsWith(key, <<"/">> \o pkgName)
             known == \E h \in 1..Len(found) : found[h].package = pkgName
         IN  lockKeysLoop(packages, pkgName,
                          IF hit /\ ~known
                          THEN Append(found, [package |-> pkgName, version |-> version])
                          ELSE found,
                          i + 1)

\* COMPROMISED_PACKAGES.forEach over the parsed package-lock.json, from
\* name i on
RECURSIVE lockLoop(_, _, _, _)
lockLoop(lock, names, found, i) ==
    IF i > Len(names) THEN found
    ELSE LET viaDependencies ==
                 IF MapHas(lock.dependencies, names[i])
                 THEN Append(found, [package |-> names[i],
                                     version |-> MapGet(lock.dependencies, names[i]).version])
                 ELSE found
         IN  lockLoop(lock, names, lockKeysLoop(lock.packages, names[i], viaDependencies, 1),
                      i + 1)

RECURSIVE legacyFindPackageRecursively(_, _, _, _)
RECURSIVE legacyFindLoop(_, _, _, _, _)
RECURSIVE legacyFindScopedLoop(_, _, _, _, _, _)

\* the inner loop over a scope directory sd, named scope, from child j on
legacyFindScopedLoop(sd, scope, entryPath, targetPackage, depth, j) ==
    IF j > Len(dirs[sd].entries) THEN <<>>
    ELSE LET scopedEntry == dirs[sd].entries[j]
             fullPackageName == scope \o <<"/">> \o scopedEntry.name
             packagePath == join(entryPath, scopedEntry.name)
         IN  (IF ~isDirectoryOnly(scopedEntry) THEN <<>>
              ELSE (IF fullPackageName = targetPackage
                    THEN <<installedRef(packagePath, manifestVersion(scopedEntry.to), depth)>>
                    ELSE <<>>)
                   \o legacyFindPackageRecursively(Lookup(scopedEntry.to, NODE_MODULES),
                          join(packagePath, NODE_MODULES), targetPackage, depth + 1))
             \o legacyFindScopedLoop(sd, scope, entryPath, targetPackage, depth, j + 1)

\* the for loop over the entries of d from entry i on
legacyFindLoop(d, path, targetPackage, depth, i) ==
    IF i > Len(dirs[d].entries) THEN <<>>
    ELSE LET entry == dirs[d].entries[i]
             entryPath == join(path, entry.name)
         IN  (IF ~isDirectoryOnly(entry) THEN <<>>
              ELSE IF startsWith(entry.name, <<"@">>)
              THEN IF readdirFails(entry.to) THEN <<>>
                   ELSE legacyFindScopedLoop(entry.to, entry.name, entryPath,
                                             targetPackage, depth, 1)
              ELSE (IF entry.name = targetPackage
                    THEN <<installedRef(entryPath, manifestVersion(entry.to), depth)>>
                    ELSE <<>>)
                   \o legacyFindPackageRecursively(Lookup(entry.to, NODE_MODULES),
                          join(entryPath, NODE_MODULES), targetPackage, depth + 1))
             \o legacyFindLoop(d, path, targetPackage, depth, i + 1)

\* findPackageRecursively of the earlier script
legacyFindPackageRecursively(d, path, targetPackage, depth) ==
    IF tooDeep(depth) \/ d = NONE \/ readdirFails(d) THEN <<>>
    ELSE legacyFindLoop(d, path, targetPackage, depth, 1)

RECURSIVE legacyScanPackageJsonDependencies(_, _, _, _)
RECURSIVE legacyScanLoop(_, _, _, _, _)
RECURSIVE legacyScanScopedLoop(_, _, _, _, _, _)

legacyScanScopedLoop(sd, scope, entryPath, compromisedPackages, depth, j) ==
    IF j > Len(dirs[sd].entries) THEN <<>>
    ELSE LET scopedEntry == dirs[sd].entries[j]
             packageName == scope \o <<"/">> \o scopedEntry.name
             packagePath == join(entryPath, scopedEntry.name)
         IN  (IF ~isDirectoryOnly(scopedEntry) THEN <<>>
              ELSE manifestRefs(scopedEntry.to, compromisedPackages, packagePath,
                                packageName, depth)
                   \o legacyScanPackageJsonDependencies(
                          Lookup(scopedEntry.to, NODE_MODULES),
                          join(packagePath, NODE_MODULES), compromisedPackages, depth + 1))
             \o legacyScanScopedLoop(sd, scope, entryPath, compromisedPackages, depth, j + 1)

legacyScanLoop(d, path, compromisedPackages, depth, i) ==
    IF i > Len(dirs[d].entries) THEN <<>>
    ELSE LET entry == dirs[d].entries[i]
             entryPath == join(path, entry.name)
         IN  (IF ~isDirectoryOnly(entry) THEN <<>>
              ELSE IF startsWith(entry.name, <<"@">>)
              THEN IF readdirFails(entry.to) THEN <<>>
                   ELSE legacyScanScopedLoop(entry.to, entry.name, entryPath,
                                             compromisedPackages, depth, 1)
              ELSE manifestRefs(entry.to, compromisedPackages, entryPath, entry.name, depth)
                   \o legacyScanPackageJsonDependencies(Lookup(entry.to, NODE_MODULES),
                          join(entryPath, NODE_MODULES), compromisedPackages, depth + 1))
             \o legacyScanLoop(d, path, compromisedPackages, depth, i + 1)

\* scanPackageJsonDependencies of the earlier script
legacyScanPackageJsonDependencies(d, path, compromisedPackages, depth) ==
    IF tooDeep(depth) \/ d = NONE \/ readdirFails(d) THEN <<>>
    ELSE legacyScanLoop(d, path, compromisedPackages, depth, 1)

legacyFinding(package, version, path, depth, type, referencedBy) ==
    [package |-> package, version |-> version, path |-> path, depth |-> depth,
     type |-> type, referencedBy |-> referencedBy]

\* COMPROMISED_PACKAGES.forEach from name i on: every instance found is
\* pushed, whatever its version
RECURSIVE legacyInstalledLoop(_, _)
legacyInstalledLoop(names, i) ==
    IF i > Len(names) THEN <<>>
    ELSE LET foundInstances ==
                 legacyFindPackageRecursively(nodeModules, NODE_MODULES, names[i], 0)
         IN  [h \in 1..Len(foundInstances) |->
                 legacyFinding(names[i], foundInstances[h].version, foundInstances[h].path,
                               foundInstances[h].depth, "installed", <<>>)]
             \o legacyInstalledLoop(names, i + 1)

\* Object.keys(grouped): the referenced packages, by first appearance
RECURSIVE groupedKeys(_, _)
groupedKeys(refs, keys) ==
    IF refs = <<>> THEN keys
    ELSE groupedKeys(Tail(refs),
                     IF Includes(keys, Head(refs).compromisedPackage) THEN keys
                     ELSE Append(keys, Head(refs).compromisedPackage))

\* the references in refs from i on that name package g, pushed on found
\* unless one of the same package and path is there
RECURSIVE legacyRefsLoop(_, _, _, _)
legacyRefsLoop(refs, g, found, i) ==
    IF i > Len(refs) THEN found
    ELSE LET ref == refs[i]
             alreadyAdded == \E h \in 1..Len(found) :
                                found[h].package = g /\ found[h].path = ref.foundIn
         IN  legacyRefsLoop(refs, g,
                 IF ref.compromisedPackage = g /\ ~alreadyAdded
                 THEN Append(found, legacyFinding(g, ref.version, ref.foundIn, ref.depth,
                                        "dependency-reference", ref.foundInPackageName))
                 ELSE found,
                 i + 1)

RECURSIVE legacyGroupsLoop(_, _, _, _)
legacyGroupsLoop(refs, keys, found, i) ==
    IF i > Len(keys) THEN found
    ELSE legacyGroupsLoop(refs, keys, legacyRefsLoop(refs, keys[i], found, 1), i + 1)

\* checkDeps(deps, type) of the earlier script, from key i on
RECURSIVE legacyCheckDeps(_, _, _)
legacyCheckDeps(deps, type, i) ==
    IF i > Len(deps) THEN <<>>
    ELSE (IF Includes(COMPROMISED_PACKAGES, deps[i].key)
          THEN <<[package |-> deps[i].key, version |-> deps[i].value, type |-> type]>>
          ELSE <<>>)
         \o legacyCheckDeps(deps, type, i + 1)

\* the risk level of the earlier script with the lockfile test put first
legacyCriticalLevel_lockFirst(found) ==
    IF Len(found.foundInPackageLock) > 0 THEN "medium"
    ELSE IF Len(found.foundInNodeModules) > 0 THEN "critical"
    ELSE IF Len(found.foundInPackageJson) > 0 THEN "high"
    ELSE "none"

legacyCriticalLevel(found) ==
    IF Len(found.foundInNodeModules) > 0 THEN "critical"
    ELSE IF Len(found.foundInPackageJson) > 0 THEN "high"
    ELSE IF Len(found.foundInPackageLock) > 0 THEN "medium"
    ELSE "none"

LegacyCheckTarget ==
    /\ pc = "legacy_start"
    /\ IF targetDir = NONE \/ ~dirs[targetDir].isDir
       THEN exit(1)
       ELSE pc' = "legacy_load" /\ UNCHANGED exitCode
    /\ UNCHANGED <<legacyVars, packageListFile, COMPROMISED_PACKAGES_MAP, matcherVars, dirs,
                   targetDir, keyIndex, walkVars, results, reportWritten>>
    /\ UNCHANGED extractVars

LegacyLoad ==
    /\ pc = "legacy_load"
    /\ IF packageListFile.state # "ok"
       THEN exit(1) /\ UNCHANGED COMPROMISED_PACKAGES
       ELSE /\ COMPROMISED_PACKAGES' = packageListFile.packages
            /\ pc' = "legacy_lock"
            /\ UNCHANGED exitCode
    /\ UNCHANGED <<packageLock, packageListFile, COMPROMISED_PACKAGES_MAP, matcherVars, dirs,
                   targetDir, keyIndex, walkVars, results, reportWritten>>
    /\ UNCHANGED extractVars

\* the package-lock.json check; a file that fails to parse is logged
LegacyPackageLock ==
    /\ pc = "legacy_lock"
    /\ results' = IF packageLock.state # "ok" THEN results
                  ELSE [results EXCEPT !.foundInPackageLock =
                           lockLoop(packageLock, COMPROMISED_PACKAGES, @, 1)]
    /\ pc' = "legacy_node_modules"
    /\ UNCHANGED <<legacyVars, packageListFile, COMPROMISED_PACKAGES_MAP, matcherVars, dirs,
                   targetDir, keyIndex, walkVars, reportWritten, exitCode>>
    /\ UNCHANGED extractVars

\* the node_modules check: the installed instances, then the references
LegacyNodeModules ==
    /\ pc = "legacy_node_modules"
    /\ results' =
          IF nodeModules = NONE THEN results
          ELSE LET dependencyReferences ==
                       legacyScanPackageJsonDependencies(nodeModules, NODE_MODULES,
                                                         COMPROMISED_PACKAGES, 0)
               IN  [results EXCEPT !.foundInNodeModules =
                       legacyGroupsLoop(dependencyReferences,
                                        groupedKeys(dependencyReferences, <<>>),
                                        @ \o legacyInstalledLoop(COMPROMISED_PACKAGES, 1), 1)]
    /\ pc' = "legacy_package_json"
    /\ UNCHANGED <<legacyVars, packageListFile, COMPROMISED_PACKAGES_MAP, matcherVars, dirs,
                   targetDir, keyIndex, walkVars, reportWritten, exitCode>>
    /\ UNCHANGED extractVars

LegacyCheckPackageJson ==
    /\ pc = "legacy_package_json"
    /\ LET packageJson == dirs[targetDir].manifest
       IN  results' =
             IF packageJson.state # "ok" THEN results
             ELSE [results EXCEPT !.foundInPackageJson =
                     @ \o legacyCheckDeps(packageJson.dependencies, "dependencies", 1)
                       \o legacyCheckDeps(packageJson.devDependencies, "devDependencies", 1)
                       \o legacyCheckDeps(packageJson.peerDependencies, "peerDependencies", 1)
                       \o legacyCheckDeps(packageJson.optionalDependencies,
                                          "optionalDependencies", 1)]
    /\ pc' = "legacy_summary"
    /\ UNCHANGED <<legacyVars, packageListFile, COMPROMISED_PACKAGES_MAP, matcherVars, dirs,
                   targetDir, keyIndex, walkVars, reportWritten, exitCode>>
    /\ UNCHANGED extractVars

LegacySummary ==
    /\ pc = "legacy_summary"
    /\ LET totalIssues == Len(results.foundInPackageLock) + Len(results.foundInNodeModules)
                              + Len(results.foundInPackageJson)
       IN  results' = [results EXCEPT !.summary =
                         [safe |-> totalIssues = 0, totalIssues |-> totalIssues,
                          criticalLevel |-> legacyCriticalLevel(results)]]
    /\ pc' = "legacy_report"
    /\ UNCHANGED <<legacyVars, packageListFile, COMPROMISED_PACKAGES_MAP, matcherVars, dirs,
                   targetDir, keyIndex, walkVars, reportWritten, exitCode>>
    /\ UNCHANGED extractVars

LegacyWriteReport ==
    /\ pc = "legacy_report"
    /\ \E written \in BOOLEAN : reportWritten' = written
    /\ pc' = "legacy_exit"
    /\ UNCHANGED <<legacyVars, packageListFile, COMPROMISED_PACKAGES_MAP, matcherVars, dirs,
                   targetDir, keyIndex, walkVars, results, exitCode>>
    /\ UNCHANGED extractVars

LegacyExit ==
    /\ pc = "legacy_exit"
    /\ exit(IF results.summary.safe THEN 0 ELSE 1)
    /\ UNCHANGED <<legacyVars, packageListFile, COMPROMISED_PACKAGES_MAP, matcherVars, dirs,
                   targetDir, keyIndex, walkVars, results, reportWritten>>
    /\ UNCHANGED extractVars

----------------------------------------------------------------------------
(* extract_packages.cjs: the blacklist text, a sequence of characters and  *)
(* words, is split into lines; each line is matched against two patterns   *)
(* and gives at most one entry; the entries are written as CSV and JSON.   *)

\* s.split(sep), from the start of the piece that begins the rest text
RECURSIVE split(_, _)
split(s, sep) ==
    IF \A i \in 1..Len(s) : s[i] # sep THEN <<s>>
    ELSE LET k == CHOOSE i \in 1..Len(s) : s[i] = sep /\ \A h \in 1..(i - 1) : s[h] # sep
         IN  <<SubSeq(s, 1, k - 1)>> \o split(SubSeq(s, k + 1, Len(s)), sep)

\* arr.join(sep)
RECURSIVE joinWith(_, _)
joinWith(arr, sep) ==
    IF arr = <<>> THEN <<>>
    ELSE IF Len(arr) = 1 THEN arr[1]
    ELSE arr[1] \o <<sep>> \o joinWith(Tail(arr), sep)

\* s.trim()
RECURSIVE trim(_)
trim(s) ==
    IF s = <<>> THEN s
    ELSE IF s[1] = " " THEN trim(Tail(s))
    ELSE IF s[Len(s)] = " " THEN trim(SubSeq(s, 1, Len(s) - 1))
    ELSE s

\* what [\w-]+ and [a-z0-9-_.]+ take: letters and digits, here the words and
\* the characters of versions
NameChars == {"evil", "lib", "s", "v", "0", "1"}

\* the index after the longest run of characters of set from index i of s
RECURSIVE runEnd(_, _, _)
runEnd(s, i, set) == IF i <= Len(s) /\ s[i] \in set THEN runEnd(s, i + 1, set) ELSE i

\* where the name starts and ends under ^(@?[\w-]+\/)?([a-z0-9-_.]+): the
\* scope group is taken when it can be, the name cannot hold "@" or "/"
nameSpan(s) ==
    LET a == IF Len(s) > 0 /\ s[1] = "@" THEN 2 ELSE 1
        b == runEnd(s, a, NameChars)
        scoped == b > a /\ b <= Len(s) /\ s[b] = "/"
        from == IF scoped THEN b + 1 ELSE 1
    IN  [from |-> from, to |-> runEnd(s, from, NameChars)]

\* the index after v[\d.]+(?:,\s*v[\d.]+)* from index i of s, 0 for no match;
\* [\d.]+ takes the digits
RECURSIVE versionsEnd(_, _)
versionsEnd(s, i) ==
    LET e == runEnd(s, i + 1, {"0", "1"})
        n == runEnd(s, e + 1, {" "})
    IN  IF ~(i <= Len(s) /\ s[i] = "v" /\ e > i + 1) THEN 0
        ELSE IF e <= Len(s) /\ s[e] = "," /\ versionsEnd(s, n) # 0 THEN versionsEnd(s, n)
        ELSE e

NoMatch == [matched |-> FALSE, name |-> <<>>, versions |-> <<>>]

\* trimmedLine.match(pattern1): the name with its scope, and the text
\* between the parentheses
pattern1(s) ==
    LET span == nameSpan(s)
        open == runEnd(s, span.to, {" "})
        close == IF open <= Len(s) /\ s[open] = "(" THEN versionsEnd(s, open + 1) ELSE 0
    IN  IF /\ span.to > span.from
           /\ open > span.to
           /\ close # 0 /\ close <= Len(s) /\ s[close] = ")"
        THEN [matched |-> TRUE, name |-> SubSeq(s, 1, span.to - 1),
              versions |-> SubSeq(s, open + 1, close - 1)]
        ELSE NoMatch

\* trimmedLine.match(pattern2): a name with its scope and nothing after it
pattern2(s) ==
    LET span == nameSpan(s)
    IN  IF span.to > span.from /\ span.to = Len(s) + 1
        THEN [matched |-> TRUE, name |-> s, versions |-> <<>>]
        ELSE NoMatch

\* the entry of a line, if it gives one
lineEntry(line, index) ==
    LET trimmedLine == trim(line)
        match1 == pattern1(trimmedLine)
        match2 == pattern2(trimmedLine)
        \* match1[3].split(',').map((v) => v.trim())
        versions == [i \in 1..Len(split(match1.versions, ",")) |->
                        trim(split(match1.versions, ",")[i])]
    IN  IF trimmedLine = <<>> \/ trimmedLine[1] \in {"---", "#"} THEN <<>>
        ELSE IF match1.matched
        THEN <<[name |-> match1.name, versions |-> versions,
                line |-> index]>>
        ELSE IF match2.matched
        THEN <<[name |-> match2.name, versions |-> <<>>, line |-> index]>>
        ELSE <<>>

NoOutputs == [written |-> FALSE, csv |-> <<>>, json |-> <<>>, simple |-> <<>>]

\* the input file is read and split into lines, or is missing
ExtractRead ==
    /\ pc = "extract"
    /\ IF ~inputFile.exists
       THEN exit(1) /\ UNCHANGED lines
       ELSE /\ lines' = split(inputFile.content, "\n")
            /\ pc' = "extract_lines"
            /\ UNCHANGED exitCode
    /\ UNCHANGED <<inputFile, lineIndex, extracted, packageSet, outputs>>
    /\ UNCHANGED <<legacyVars, packageListFile, COMPROMISED_PACKAGES_MAP, matcherVars, dirs,
                   targetDir, keyIndex, walkVars, results, reportWritten>>

\* one turn of lines.forEach
ExtractLine ==
    /\ pc = "extract_lines"
    /\ lineIndex <= Len(lines)
    /\ LET entry == lineEntry(lines[lineIndex], lineIndex)
       IN  IF entry = <<>> THEN UNCHANGED <<extracted, packageSet>>
           ELSE /\ extracted' = (IF entry[1].name \in packageSet THEN extracted
                                 ELSE Append(extracted, entry[1]))
                /\ packageSet' = packageSet \cup {entry[1].name}
    /\ lineIndex' = lineIndex + 1
    /\ UNCHANGED <<pc, inputFile, lines, outputs>>
    /\ UNCHANGED <<legacyVars, packageListFile, COMPROMISED_PACKAGES_MAP, matcherVars, dirs,
                   targetDir, keyIndex, walkVars, results, reportWritten, exitCode>>

\* the three files are written and the script ends
ExtractWrite ==
    /\ pc = "extract_lines"
    /\ lineIndex > Len(lines)
    /\ outputs' = [written |-> TRUE,
                   csv |-> joinWith(
                              <<<<"package_name", ",", "versions">>>>
                                  \o [i \in 1..Len(extracted) |->
                                        <<"\"">> \o extracted[i].name \o <<"\"", ",", "\"">>
                                            \o joinWith(extracted[i].versions, ";")
                                            \o <<"\"">>],
                              "\n"),
                   json |-> [i \in 1..Len(extracted) |->
                               [name |-> extracted[i].name,
                                versions |-> extracted[i].versions]],
                   simple |-> [i \in 1..Len(extracted) |-> extracted[i].name]]
    /\ exit(0)
    /\ UNCHANGED <<inputFile, lines, lineIndex, extracted, packageSet>>
    /\ UNCHANGED <<legacyVars, packageListFile, COMPROMISED_PACKAGES_MAP, matcherVars, dirs,
                   targetDir, keyIndex, walkVars, results, reportWritten>>

----------------------------------------------------------------------------
(* The inputs: file systems, blacklist files *)

Entry(name, kind, to) == [name |-> name, kind |-> kind, to |-> to]

Manifest(state, version, dependencies) ==
    [state |-> state, version |-> version, dependencies |-> dependencies,
     devDependencies |-> <<>>, peerDependencies |-> <<>>, optionalDependencies |-> <<>>]

NoManifest == Manifest("none", ABSENT, <<>>)

Directory(entries, manifest) ==
    [isDir |-> TRUE, readable |-> TRUE, entries |-> entries, manifest |-> manifest]

File == [isDir |-> FALSE, readable |-> FALSE, entries |-> <<>>, manifest |-> NoManifest]

ROOT == <<"root", 0>>
Nm(k) == <<"nm", k>>
Lib(k) == <<"lib", k>>
EVIL_DIR == <<"evil", 0>>
SCOPE_DIR == <<"scope", 0>>
STORE_DIR == <<"store", 0>>
SLOT_DIR == <<"slot", 0>>
SLOT_NM == <<"slotnm", 0>>
\* the store's directory of lib, whose node_modules links to its dependency
LIB_SLOT == <<"slot", 1>>
LIB_SLOT_NM == <<"slotnm", 1>>
\* a store directory with nothing in it
EMPTY_SLOT == <<"slot", 2>>
\* .pnpm/node_modules, where the store links the packages it hoists
STORE_NM == <<"storenm", 0>>
\* the node_modules of the package evil, and the copy of evil inside it
EVIL_NM == <<"evilnm", 0>>
NESTED_EVIL == <<"evil", 1>>
\* a package beside lib whose node_modules is a link to a node_modules
\* directory further down
SHORTCUT == <<"other", 0>>
A_FILE == <<"file", 0>>

\* the inodes of a chain of len + 1 levels with the given payload
Inodes(len, layout) ==
    {ROOT} \cup {Nm(k) : k \in 0..len} \cup {Lib(k) : k \in 0..len}
        \cup (CASE layout \in {"regular", "symlinked", "locked"} -> {EVIL_DIR}
                 [] layout \in {"scoped", "lockedscope"} -> {SCOPE_DIR, EVIL_DIR}
                 [] layout \in {"store", "lockedstore", "hoisted"} ->
                       {STORE_DIR, SLOT_DIR, SLOT_NM, EVIL_DIR,
                        LIB_SLOT, LIB_SLOT_NM, EMPTY_SLOT, STORE_NM}
                 [] layout = "scopedstore" ->
                       {STORE_DIR, SLOT_DIR, SLOT_NM, SCOPE_DIR, EVIL_DIR,
                        LIB_SLOT, LIB_SLOT_NM, EMPTY_SLOT, STORE_NM}
                 [] layout = "shortcut" -> {EVIL_DIR, SHORTCUT}
                 [] layout = "nested" -> {EVIL_DIR, EVIL_NM, NESTED_EVIL}
                 [] layout = "scopednested" -> {SCOPE_DIR, EVIL_DIR, EVIL_NM, NESTED_EVIL}
                 [] layout \in {"filelink", "file"} -> {A_FILE}
                 [] layout \in {"none", "dangling"} -> {})

LIB == <<"lib">>
SCOPE == <<"@", "s">>
RANGE == <<"^", "1", "0">>

\* what is installed at one level of the chain, by layout
Payload(layout) ==
    CASE layout = "regular" -> <<Entry(EVIL, "dir", EVIL_DIR)>>
      [] layout = "symlinked" -> <<Entry(EVIL, "link", EVIL_DIR)>>
      [] layout = "scoped" -> <<Entry(SCOPE, "dir", SCOPE_DIR)>>
      [] layout = "store" -> <<Entry(PNPM, "dir", STORE_DIR)>>
      [] layout = "hoisted" -> <<Entry(PNPM, "dir", STORE_DIR), Entry(EVIL, "link", EVIL_DIR)>>
      [] layout = "locked" -> <<Entry(EVIL, "dir", EVIL_DIR)>>
      [] layout = "lockedscope" -> <<Entry(SCOPE, "dir", SCOPE_DIR)>>
      [] layout = "lockedstore" -> <<Entry(PNPM, "dir", STORE_DIR)>>
      [] layout = "scopedstore" -> <<Entry(PNPM, "dir", STORE_DIR)>>
      [] layout = "shortcut" -> <<Entry(EVIL, "dir", EVIL_DIR)>>
      [] layout = "nested" -> <<Entry(EVIL, "dir", EVIL_DIR)>>
      [] layout = "scopednested" -> <<Entry(SCOPE, "dir", SCOPE_DIR)>>
      [] layout = "filelink" -> <<Entry(EVIL, "link", A_FILE)>>
      [] layout = "file" -> <<Entry(EVIL, "file", A_FILE)>>
      [] layout = "none" -> <<>>
      [] layout = "dangling" -> <<Entry(EVIL, "link", NONE)>>

Layouts == {"regular", "symlinked", "scoped", "store", "hoisted", "scopedstore",
            "filelink", "file", "none", "locked", "lockedscope", "lockedstore", "dangling"}

\* a directory that cannot be read: readdirSync throws
Unreadable(dir) == [dir EXCEPT !.readable = FALSE]

\* A chain of len + 1 node_modules directories: level k holds the package
\* lib, whose node_modules is level k + 1; the last lib's node_modules is a
\* symbolic link back to level `back` (none when back < 0).  Level `at`
\* also holds the payload, whose package.json is evilManifest.  In the
\* layout "shortcut" level 0 holds, after lib, a package whose node_modules
\* is a link to the deepest level a walk along lib reads but the last.
Chain(len, at, layout, evilManifest, back, libManifest, rootManifest) ==
    [d \in Inodes(len, layout) |->
        LET plain ==
                CASE d = ROOT -> Directory(<<Entry(NODE_MODULES, "dir", Nm(0))>>, rootManifest)
                  [] d = EVIL_DIR ->
                        Directory((IF layout \in {"nested", "scopednested"}
                                   THEN <<Entry(NODE_MODULES, "dir", EVIL_NM)>>
                                   ELSE <<>>), evilManifest)
                  [] d = EVIL_NM -> Directory(<<Entry(EVIL, "dir", NESTED_EVIL)>>, NoManifest)
                  [] d = NESTED_EVIL -> Directory(<<>>, evilManifest)
                  [] d = SCOPE_DIR -> Directory(<<Entry(EVIL, "dir", EVIL_DIR)>>, NoManifest)
                  [] d = STORE_DIR ->
                        Directory(<<Entry(<<"lib", "@", "1", "0">>, "dir", LIB_SLOT),
                                    Entry((IF layout = "scopedstore"
                                           THEN <<"@", "s", "+", "evil", "@", "1", "0">>
                                           ELSE <<"evil", "@", "1", "0">>), "dir", SLOT_DIR),
                                    Entry((IF layout = "scopedstore"
                                           THEN <<"@", "s", "+", "evil", "@", "1", "1">>
                                           ELSE <<"evil", "@", "1", "1">>), "dir", EMPTY_SLOT),
                                    Entry(<<"evil", "x", "@", "1", "0">>, "link", SLOT_DIR),
                                    Entry(NODE_MODULES, "dir", STORE_NM)>>,
                                  NoManifest)
                  [] d = STORE_NM ->
                        Directory((IF layout = "scopedstore"
                                   THEN <<Entry(SCOPE, "link", SCOPE_DIR)>>
                                   ELSE <<Entry(EVIL, "link", EVIL_DIR)>>), NoManifest)
                  [] d = LIB_SLOT ->
                        Directory(<<Entry(NODE_MODULES, "dir", LIB_SLOT_NM)>>, NoManifest)
                  [] d = LIB_SLOT_NM ->
                        Directory((IF layout = "scopedstore"
                                   THEN <<Entry(SCOPE, "link", SCOPE_DIR)>>
                                   ELSE <<Entry(EVIL, "link", EVIL_DIR)>>), NoManifest)
                  [] d = EMPTY_SLOT -> Directory(<<>>, NoManifest)
                  [] d = SLOT_DIR -> Directory(<<Entry(NODE_MODULES, "dir", SLOT_NM)>>, NoManifest)
                  [] d = SLOT_NM ->
                        Directory((IF layout = "scopedstore"
                                   THEN <<Entry(SCOPE, "dir", SCOPE_DIR)>>
                                   ELSE <<Entry(EVIL, "dir", EVIL_DIR)>>), NoManifest)
                  [] d = A_FILE -> File
                  [] d = SHORTCUT ->
                        Directory((IF len >= 1
                                   THEN <<Entry(NODE_MODULES, "link",
                                                Nm(IF len - 1 < maxDepth THEN len - 1
                                                   ELSE maxDepth))>>
                                   ELSE <<>>), NoManifest)
                  [] d[1] = "nm" ->
                        Directory((IF d[2] = at THEN Payload(layout) ELSE <<>>)
                                     \o <<Entry(LIB, "dir", Lib(d[2]))>>
                                     \o (IF layout = "shortcut" /\ d[2] = 0
                                         THEN <<Entry(OTHERPKG, "dir", SHORTCUT)>>
                                         ELSE <<>>), NoManifest)
                  [] d[1] = "lib" ->
                        Directory((IF d[2] < len THEN <<Entry(NODE_MODULES, "dir", Nm(d[2] + 1))>>
                                   ELSE IF back >= 0 /\ d[2] = len
                                   THEN <<Entry(NODE_MODULES, "link", Nm(back))>>
                                   ELSE <<>>),
                                  libManifest)
        IN  IF \/ layout = "locked" /\ d = Nm(at)
               \/ layout = "lockedscope" /\ d = SCOPE_DIR
               \/ layout = "lockedstore" /\ d = STORE_DIR
            THEN Unreadable(plain)
            ELSE plain]

Declares(name) == <<[key |-> name, value |-> RANGE]>>

EvilManifests ==
    {Manifest("ok", v, <<>>) : v \in {<<"1", "0">>, <<"v", "1", "0">>, <<"1", "1">>,
                                      NUMBER, ABSENT}}
        \cup {Manifest("bad", ABSENT, <<>>), Manifest("unreadable", ABSENT, <<>>),
              NoManifest}

\* the last one names evil in two groups, with two ranges, after a package
\* that no blacklist names
LibManifests ==
    {Manifest("ok", <<"1", "0">>, <<>>), Manifest("ok", NUMBER, <<>>),
     Manifest("ok", <<"1", "0">>, Declares(EVIL)),
     [Manifest("ok", <<"1", "0">>, Declares(OTHERPKG) \o Declares(EVIL)) EXCEPT
         !.optionalDependencies = <<[key |-> EVIL, value |-> <<"*">>]>>]}

RootManifests ==
    {NoManifest, Manifest("ok", <<"1", "0">>, Declares(LIB)),
     Manifest("ok", <<"1", "0">>, Declares(EVIL))}

\* the package.json of a project with nothing installed: also one that names
\* evil as a development dependency of any version, one that names it in two
\* groups, and one that does not parse
BareManifests ==
    RootManifests
        \cup {[Manifest("ok", <<"1", "0">>, <<>>) EXCEPT
                  !.devDependencies = <<[key |-> EVIL, value |-> <<"*">>]>>],
              [Manifest("ok", <<"1", "0">>, Declares(EVIL)) EXCEPT
                  !.peerDependencies = Declares(EVIL)],
              Manifest("bad", ABSENT, <<>>)}

\* shallow trees with every layout and manifest
ShallowTrees ==
    UNION {{Chain(len, at, layout, em, -1, lm, rm) :
               at \in 0..len, layout \in Layouts, em \in EvilManifests,
               lm \in LibManifests, rm \in RootManifests} : len \in 0..1}

\* deep trees and link rings, the payload with a listed version; also with
\* a copy of evil in the node_modules of evil
DeepTrees ==
    UNION {{Chain(len, at, layout, Manifest("ok", <<"1", "0">>, <<>>), back,
                  Manifest("ok", <<"1", "0">>, <<>>), NoManifest) :
               at \in 0..len,
               layout \in {"regular", "scoped", "store", "nested", "scopednested",
                           "shortcut"},
               back \in {-1, 0, len}} : len \in 0..MaxChain}

\* a project with nothing installed: no node_modules directory
BareProject(rootManifest) == [d \in {ROOT} |-> Directory(<<>>, rootManifest)]

ListFile(packages) == [state |-> "ok", packages |-> packages]

Listed(name, versions) == [name |-> name, versions |-> versions]

ListFiles ==
    {ListFile(<<Listed(EVIL, << <<"1", "0">> >>)>>),
     ListFile(<<Listed(EVIL, << <<"v", "1", "0">>, <<"0", "1">> >>),
                Listed(LIB, << <<"1", "1">> >>)>>),
     ListFile(<<Listed(SCOPED_EVIL, << <<"1", "0">> >>)>>),
     ListFile(<<Listed(EVIL, <<>>)>>),
     ListFile(<<Listed(EVIL, << <<"1", "0">> >>), Listed(EVIL, << <<"1", "1">> >>)>>)}

\* no package-lock.json
NoLock == [state |-> "missing", dependencies |-> <<>>, packages |-> <<>>]

Lock(dependencies, packages) ==
    [state |-> "ok", dependencies |-> dependencies, packages |-> packages]

Locked(key, version) == [key |-> key, value |-> [version |-> version]]

\* package-lock.json files: none, one that fails to parse, the older format
\* (dependencies), the newer one (packages, the project itself under ""),
\* one with both, one that holds another package whose name ends the same
LockFiles ==
    {NoLock,
     [state |-> "bad", dependencies |-> <<>>, packages |-> <<>>],
     Lock(<<Locked(EVIL, <<"1", "0">>)>>, <<>>),
     Lock(<<>>, <<Locked(<<>>, <<"1", "0">>),
                  Locked(<<"node_modules", "/", "evil">>, <<"1", "0">>),
                  Locked(<<"node_modules", "/", "lib", "/", "node_modules", "/", "evil">>,
                         ABSENT)>>),
     Lock(<<Locked(EVIL, ABSENT)>>,
          <<Locked(<<"node_modules", "/", "evil">>, <<"1", "1">>)>>),
     Lock(<<>>, <<Locked(<<"node_modules", "/", "@", "s", "/", "evil">>, <<"1", "0">>)>>)}

\* the list of names the earlier script reads
NameLists == {<<EVIL>>, <<SCOPED_EVIL, LIB>>, <<>>}

\* the trees the earlier script is run on
LegacyTrees ==
    UNION {{Chain(len, at, layout, em, -1, lm, rm) :
               at \in 0..len, layout \in {"regular", "symlinked", "scoped", "none"},
               em \in {Manifest("ok", <<"1", "1">>, <<>>), Manifest("ok", NUMBER, <<>>)},
               lm \in LibManifests, rm \in RootManifests} : len \in 0..1}
        \cup {Chain(1, 1, "regular", Manifest("ok", <<"1", "0">>, Declares(EVIL)), 0,
                    Manifest("ok", <<"1", "0">>, Declares(EVIL)), NoManifest)}
        \cup {BareProject(rm) : rm \in RootManifests}

LegacyNoResults ==
    [foundInPackageLock |-> <<>>, foundInNodeModules |-> <<>>, foundInPackageJson |-> <<>>,
     summary |-> [safe |-> TRUE, totalIssues |-> 0, criticalLevel |-> "none"]]

NoResults ==
    [foundInNodeModules |-> <<>>, foundInPackageJson |-> <<>>,
     summary |-> [safe |-> TRUE, totalIssues |-> 0, criticalLevel |-> "none"]]

InitRest ==
    /\ COMPROMISED_PACKAGES_MAP = <<>>
    /\ COMPROMISED_PACKAGES = <<>>
    /\ qName = <<>> /\ qVersion = <<>> /\ normalizedVersion = <<>> /\ qAnswer = FALSE
    /\ keyIndex = 1
    /\ stack = <<>> /\ visitedPaths = {} /\ walkResults = <<>> /\ visitLog = <<>>
    /\ reportWritten = FALSE
    /\ exitCode = -1

\* extract_packages.cjs is not running
ExtractIdle ==
    /\ inputFile = [exists |-> FALSE, content |-> <<>>]
    /\ lines = <<>> /\ lineIndex = 1 /\ extracted = <<>> /\ packageSet = {}
    /\ outputs = NoOutputs

\* a run of the earlier script
LegacyInit ==
    /\ InitRest
    /\ ExtractIdle
    /\ pc = "legacy_start"
    /\ results = LegacyNoResults
    /\ \/ /\ dirs \in LegacyTrees
          /\ targetDir = ROOT
          /\ packageListFile \in {ListFile(names) : names \in NameLists}
          /\ packageLock \in LockFiles
       \/ /\ dirs \in {Chain(0, 0, "file", NoManifest, -1, NoManifest, NoManifest)}
          /\ targetDir \in {NONE, A_FILE, ROOT}
          /\ packageListFile \in {[state |-> "missing", packages |-> <<>>],
                                  [state |-> "bad", packages |-> <<>>]}
          /\ packageLock = NoLock

\* a run of the script
CurrentInit ==
    /\ InitRest
    /\ ExtractIdle
    /\ pc = "start"
    /\ packageLock = NoLock
    /\ results = NoResults
    /\ \/ /\ dirs \in ShallowTrees \cup DeepTrees
                       \cup {BareProject(rm) : rm \in BareManifests}
          /\ targetDir = ROOT
          /\ packageListFile \in ListFiles
       \/ /\ dirs \in {Chain(0, 0, "file", NoManifest, -1, NoManifest, NoManifest)}
          /\ targetDir \in {NONE, A_FILE, ROOT}
          /\ packageListFile \in
                {[state |-> "missing", packages |-> <<>>],
                 [state |-> "bad", packages |-> <<>>],
                 ListFile(<<Listed(EVIL, <<NUMBER>>)>>),
                 ListFile(<<>>),
                 [state |-> "nopackages", packages |-> <<>>],
                 ListFile(<<[name |-> EVIL]>>),
                 ListFile(<<Listed(ABSENT, << <<"1", "0">> >>)>>)}

\* the steps of the script
CurrentNext ==
    \/ CheckTarget
    \/ LoadBlacklist
    \/ NodeModulesExists
    \/ FindCall
    \/ FindStep
    \/ FindReturn
    \/ ScanCall
    \/ ScanStep
    \/ ScanReturn
    \/ CheckPackageJson
    \/ Summary
    \/ WriteReport
    \/ Exit

\* the steps of the earlier script
LegacyNext ==
    \/ LegacyCheckTarget
    \/ LegacyLoad
    \/ LegacyPackageLock
    \/ LegacyNodeModules
    \/ LegacyCheckPackageJson
    \/ LegacySummary
    \/ LegacyWriteReport
    \/ LegacyExit

Next == CurrentNext \/ LegacyNext

Init == CurrentInit \/ LegacyInit

Spec == Init /\ [][Next]_vars

\* the runs termination is checked on: the script on the deep trees and on
\* the rings of links
LiveInit ==
    /\ InitRest
    /\ ExtractIdle
    /\ pc = "start"
    /\ packageLock = NoLock
    /\ results = NoResults
    /\ dirs \in DeepTrees
    /\ targetDir = ROOT
    /\ packageListFile \in {ListFile(<<Listed(EVIL, << <<"1", "0">> >>)>>),
                            ListFile(<<Listed(SCOPED_EVIL, << <<"1", "0">> >>)>>)}

\* the process is one thread that runs on: a step that can be taken is taken
LiveSpec == LiveInit /\ [][CurrentNext]_vars /\ WF_vars(CurrentNext)

----------------------------------------------------------------------------
(* The matcher on its own: a blacklist file is loaded, then isCompromised  *)
(* is called once on any name and version.                                 *)

\* version lists an entry of the blacklist file may carry
ListedVersions ==
    { <<>>,
      << <<"1", "0">> >>,
      << <<"v", "1", "0">> >>,
      << <<"v", "v", "1">> >>,
      << <<"v", "1", "0">>, <<"1", "1">> >> }

RawEntries == [name : {EVIL, OTHERPKG}, versions : ListedVersions]

MatcherInit ==
    /\ pc = "m_load"
    /\ ExtractIdle
    /\ packageListFile \in {ListFile(packages) : packages \in SeqsOf(RawEntries, 0, MaxEntries)}
    /\ COMPROMISED_PACKAGES_MAP = <<>>
    /\ COMPROMISED_PACKAGES = <<>>
    /\ packageLock = NoLock
    /\ qName \in {EVIL, OTHERPKG, SCOPED_EVIL}
    /\ qVersion \in VersionStrings
    /\ normalizedVersion = <<>>
    /\ qAnswer = FALSE
    /\ dirs = BareProject(NoManifest)
    /\ targetDir = ROOT
    /\ keyIndex = 1
    /\ stack = <<>> /\ visitedPaths = {} /\ walkResults = <<>> /\ visitLog = <<>>
    /\ results = NoResults
    /\ reportWritten = FALSE
    /\ exitCode = -1

MatcherLoad ==
    /\ pc = "m_load"
    /\ COMPROMISED_PACKAGES_MAP' = LoadMap(packageListFile.packages)
    /\ pc' = "m_call"
    /\ UNCHANGED <<legacyVars, packageListFile, matcherVars, dirs, targetDir, keyIndex, walkVars,
                   results, reportWritten, exitCode>>
    /\ UNCHANGED extractVars

MatcherCall ==
    /\ pc = "m_call"
    /\ normalizedVersion' = replaceLeadingV(qVersion)
    /\ qAnswer' = isCompromised(qName, qVersion)
    /\ pc' = "m_done"
    /\ UNCHANGED <<legacyVars, packageListFile, COMPROMISED_PACKAGES_MAP, qName, qVersion, dirs,
                   targetDir, keyIndex, walkVars, results, reportWritten, exitCode>>
    /\ UNCHANGED extractVars

MatcherNext == MatcherLoad \/ MatcherCall

MatcherSpec == MatcherInit /\ [][MatcherNext]_vars

----------------------------------------------------------------------------
(* The extraction on its own: a blacklist text of MaxLines lines at most *)

Line(name, versionsText) == name \o <<" ", "(">> \o versionsText \o <<")">>

\* the lines a blacklist text is made of
BlacklistLines ==
    {Line(EVIL, <<"v", "1", "0">>),
     Line(EVIL, <<"v", "1", "1">>),
     Line(EVIL, <<"v", "1", "0", ",", " ", "v", "0", "1">>),
     Line(SCOPED_EVIL, <<"v", "1", "0">>),
     Line(LIB, <<"v", "1", "0">>),
     Line(EVIL, <<"1", "0">>),
     <<" ">> \o Line(EVIL, <<"v", "0", "1">>) \o <<" ">>,
     EVIL,
     <<"#", " ">> \o Line(EVIL, <<"v", "1", "0">>),
     <<"---">>,
     <<>>}

InputFiles ==
    {[exists |-> FALSE, content |-> <<>>]}
        \cup {[exists |-> TRUE, content |-> joinWith(ls, "\n")] :
                 ls \in SeqsOf(BlacklistLines, 0, MaxLines)}

ExtractInit ==
    /\ InitRest
    /\ pc = "extract"
    /\ packageListFile = [state |-> "missing", packages |-> <<>>]
    /\ packageLock = NoLock
    /\ dirs = BareProject(NoManifest)
    /\ targetDir = ROOT
    /\ results = NoResults
    /\ inputFile \in InputFiles
    /\ lines = <<>> /\ lineIndex = 1 /\ extracted = <<>> /\ packageSet = {}
    /\ outputs = NoOutputs

ExtractNext == ExtractRead \/ ExtractLine \/ ExtractWrite

ExtractSpec == ExtractInit /\ [][ExtractNext]_vars

----------------------------------------------------------------------------
(* Properties of the matcher, checked under MatcherSpec *)

V == <<"v">>

BeginsWithV(s) == Len(s) > 0 /\ s[1] = "v"

\* the versions the index holds for the name that was asked about
qListed == MapGet(COMPROMISED_PACKAGES_MAP, qName)

\* the blacklist file with a v put before every listed version
WithV(packages) ==
    [i \in 1..Len(packages) |->
        [name |-> packages[i].name,
         versions |-> [h \in 1..Len(packages[i].versions) |->
                          V \o packages[i].versions[h]]]]

\* the entries of the blacklist file
listedPackages == packageListFile.packages

AllListed ==
    UNION {{listedPackages[i].versions[h] : h \in 1..Len(listedPackages[i].versions)} :
              i \in 1..Len(listedPackages)}

\* C1: for a name whose blacklist entry has an empty version set,
\* isCompromised returns true for every version string.
C1_EmptySetFlagsEveryVersion ==
    (pc = "m_done" /\ MapHas(COMPROMISED_PACKAGES_MAP, qName) /\ qListed = <<>>)
        => qAnswer = TRUE

\* C2: for a name whose entry has a non-empty version set, a version that is
\* not in the set (written with or without its leading v) is not flagged:
\* the comparison is exact, a version one patch away is not matched.
C2_UnlistedVersionNotFlagged ==
    (/\ pc = "m_done"
     /\ MapHas(COMPROMISED_PACKAGES_MAP, qName)
     /\ qListed # <<>>
     /\ \A i \in 1..Len(qListed) : qVersion # qListed[i] /\ qVersion # V \o qListed[i])
        => qAnswer = FALSE

C2_Witness ==
    /\ pc = "m_done"
    /\ MapHas(COMPROMISED_PACKAGES_MAP, qName)
    /\ qListed = << <<"1", "0">> >>
    /\ qVersion = <<"1", "1">>
    /\ qAnswer = FALSE

\* C3 as stated: for every version x, asking about "v"+x gives the answer for
\* x, and a blacklist listing vX gives the answers of the one listing X.
C3_LeadingVIgnored ==
    pc = "m_done" =>
        /\ isCompromised(qName, V \o qVersion) = qAnswer
        /\ isCompromisedIn(LoadMap(WithV(listedPackages)), qName, qVersion) = qAnswer

\* C3 amended: the same, for a version x that does not itself begin with v
\* and for a blacklist whose listed versions X do not begin with v.
C3_LeadingVIgnoredOnce ==
    pc = "m_done" =>
        /\ ~BeginsWithV(qVersion) => isCompromised(qName, V \o qVersion) = qAnswer
        /\ (\A x \in AllListed : ~BeginsWithV(x))
              => isCompromisedIn(LoadMap(WithV(listedPackages)), qName, qVersion) = qAnswer

C3_Witness ==
    /\ pc = "m_done"
    /\ listedPackages = << [name |-> EVIL, versions |-> << <<"1", "0">> >>] >>
    /\ qName = EVIL
    /\ qVersion = <<"1", "0">>
    /\ qAnswer = TRUE
    /\ isCompromised(qName, V \o qVersion)

\* C4 as stated: stripping is idempotent on every version string, those
\* beginning with several v included, at load and at comparison.
C4_NormalizeIdempotent ==
    pc = "m_done" =>
        /\ replaceLeadingV(normalizedVersion) = normalizedVersion
        /\ \A i \in 1..Len(COMPROMISED_PACKAGES_MAP) :
              normalizedVersions(COMPROMISED_PACKAGES_MAP[i].value)
                  = COMPROMISED_PACKAGES_MAP[i].value

\* C4 amended: stripping is idempotent on every version string that does
\* not begin with two v, and then the v form and the plain form normalize
\* to the same string.
C4_NormalizeIdempotentOneV ==
    pc = "m_done" =>
        /\ ~IsPrefix(<<"v", "v">>, qVersion) =>
              replaceLeadingV(normalizedVersion) = normalizedVersion
        /\ ~BeginsWithV(qVersion) => replaceLeadingV(V \o qVersion) = normalizedVersion
        /\ (\A x \in AllListed : ~IsPrefix(<<"v", "v">>, x)) =>
              \A i \in 1..Len(COMPROMISED_PACKAGES_MAP) :
                 normalizedVersions(COMPROMISED_PACKAGES_MAP[i].value)
                     = COMPROMISED_PACKAGES_MAP[i].value

C4_Witness ==
    /\ pc = "m_done"
    /\ qVersion = <<"v", "1", "v">>
    /\ \E i \in 1..Len(COMPROMISED_PACKAGES_MAP) :
          COMPROMISED_PACKAGES_MAP[i].value = << <<"1", "0">>, <<"1", "1">> >>

----------------------------------------------------------------------------
(* Properties of the walks and of the whole run, checked under Spec and    *)
(* FairSpec                                                                *)

\* the node_modules of the last package of the chain links back to level k
RingTo(k) ==
    \E h \in 0..MaxChain :
        /\ Lib(h) \in DOMAIN dirs
        /\ \E e \in 1..Len(dirs[Lib(h)].entries) :
              dirs[Lib(h)].entries[e] = Entry(NODE_MODULES, "link", Nm(k))

C6_WalksTerminate == (pc \in {"find", "scan"}) ~> (stack = <<>>)

\* the dependency scan of a ring of three levels has returned
C6_Witness ==
    /\ pc = "scan"
    /\ stack = <<>>
    /\ RingTo(0)
    /\ visitLog = <<Nm(0), Nm(1), Nm(2)>>

\* C7 as stated: every installed-package reference a search returns has a
\* depth of maxDepth at most, whichever branch pushed it, so nothing that
\* lies at depth maxDepth + 1 is returned.
C7_DepthWithinBound ==
    pc = "find" =>
        \A i \in 1..Len(walkResults) : walkResults[i].depth <= maxDepth

\* the directory node_modules/N directly under the target root
rootInstall(N) == LookupPath(nodeModules, Components(N))

\* directory d holds a package.json that declares a version, a string
DeclaresVersion(d) ==
    /\ d # NONE
    /\ dirs[d].isDir
    /\ dirs[d].manifest.state = "ok"
    /\ IsString(dirs[d].manifest.version)
    /\ ~Falsy(dirs[d].manifest.version)

\* version v, with or without a leading v, is one of those listed for N
InListedSet(N, v) ==
    \E i \in 1..Len(MapGet(COMPROMISED_PACKAGES_MAP, N)) :
       v \in {MapGet(COMPROMISED_PACKAGES_MAP, N)[i],
              V \o MapGet(COMPROMISED_PACKAGES_MAP, N)[i]}

\* the blacklisted names
Blacklisted == {COMPROMISED_PACKAGES_MAP[k].key : k \in 1..Len(COMPROMISED_PACKAGES_MAP)}

\* the process has ended
Ended == pc \in {"done", "uncaught"}

\* the installed findings of the run for package N at path p
InstalledFindings(N, p) ==
    {i \in 1..Len(results.foundInNodeModules) :
        /\ results.foundInNodeModules[i].type = "installed"
        /\ results.foundInNodeModules[i].package = N
        /\ results.foundInNodeModules[i].path = p}

\* C8 as stated: when node_modules/N, directly under the target root,
\* declares a version listed for the blacklisted name N, the run ends with
\* exactly one installed finding for that directory, the risk level critical
\* and exit code 1.
C8_ListedInstallIsCritical ==
    \A N \in Blacklisted :
        (Ended /\ DeclaresVersion(rootInstall(N))
               /\ InListedSet(N, dirs[rootInstall(N)].manifest.version))
            => /\ Cardinality(InstalledFindings(N, join(NODE_MODULES, N))) = 1
               /\ results.summary.criticalLevel = "critical"
               /\ exitCode = 1

\* the node_modules directories of the tree
nodeModulesDirs ==
    {d \in DOMAIN dirs :
        \E p \in DOMAIN dirs : \E e \in 1..Len(dirs[p].entries) :
           dirs[p].entries[e].name = NODE_MODULES /\ dirs[p].entries[e].to = d}

\* the installed copies of N, wherever they are in the tree
copiesOf(N) == {LookupPath(m, Components(N)) : m \in nodeModulesDirs} \ {NONE}

\* the project's own package.json names N in a dependency group
RootDeclares(N) ==
    /\ dirs[targetDir].manifest.state = "ok"
    /\ MapHas(allDeps(dirs[targetDir].manifest), N)

\* C9 as stated: when the only installed copy of the blacklisted name N,
\* whose listed set is not empty, declares a version that is not listed, the
\* run reports no finding, the risk level none and exit code 0.  N is taken
\* to be the only blacklisted name and the project's package.json not to
\* name it, so that no finding of another kind is due.
C9_SafeInstallNoFindings ==
    \A N \in Blacklisted :
        (/\ Ended
         /\ Blacklisted = {N}
         /\ MapGet(COMPROMISED_PACKAGES_MAP, N) # <<>>
         /\ Cardinality(copiesOf(N)) = 1
         /\ \A c \in copiesOf(N) :
               DeclaresVersion(c) /\ ~InListedSet(N, dirs[c].manifest.version)
         /\ ~RootDeclares(N))
            => /\ results.foundInNodeModules = <<>>
               /\ results.foundInPackageJson = <<>>
               /\ results.summary.criticalLevel = "none"
               /\ exitCode = 0

\* the run is one of the earlier script, whose results hold lockfile findings
LegacyRun == "foundInPackageLock" \in DOMAIN results

HasFinding(type) ==
    \E i \in 1..Len(results.foundInNodeModules) :
       results.foundInNodeModules[i].type = type

CompromisedInstalled ==
    \E N \in Blacklisted : \E c \in copiesOf(N) :
       /\ dirs[c].isDir
       /\ IsString(manifestVersion(c))
       /\ isCompromised(N, manifestVersion(c))

\* C11 as stated: a run of the current script that ends with the risk level
\* critical has, somewhere under node_modules, an installed package whose
\* name and version isCompromised accepts.
C11_CriticalOnlyWhenInstalled ==
    (pc \in {"report", "exit", "done"} /\ ~LegacyRun
        /\ results.summary.criticalLevel = "critical")
        => CompromisedInstalled

\* the dependency groups of a package.json
Groups == {"dependencies", "devDependencies", "peerDependencies", "optionalDependencies"}

\* the groups of the project's own package.json that name N
DeclaringGroups(N) ==
    IF dirs[targetDir].manifest.state # "ok" THEN {}
    ELSE {g \in Groups : MapHas(dirs[targetDir].manifest[g], N)}

\* the package.json findings of the run for package N
ManifestFindings(N) ==
    {i \in 1..Len(results.foundInPackageJson) : results.foundInPackageJson[i].package = N}

\* C12: when the project's package.json names the blacklisted N in one
\* dependency group and there is no node_modules directory, the run of the
\* current script ends with exactly one package.json finding for N, of that
\* group and with the declared range, whatever that range is; no finding
\* under node_modules; the risk level high and exit code 1.
C12_DeclaredOnlyIsHigh ==
    \A N \in Blacklisted : \A g \in Groups :
        (pc = "done" /\ ~LegacyRun /\ nodeModules = NONE /\ DeclaringGroups(N) = {g})
            => /\ Cardinality(ManifestFindings(N)) = 1
               /\ \A i \in ManifestFindings(N) :
                     /\ results.foundInPackageJson[i].type = g
                     /\ results.foundInPackageJson[i].version =
                           MapGet(dirs[targetDir].manifest[g], N)
               /\ results.foundInNodeModules = <<>>
               /\ results.summary.criticalLevel = "high"
               /\ exitCode = 1

\* a run ended on a project that names evil as a development dependency of
\* any version, with nothing installed and no version listed for evil
C12_Witness ==
    /\ pc = "done"
    /\ ~LegacyRun
    /\ MapHas(COMPROMISED_PACKAGES_MAP, EVIL)
    /\ nodeModules = NONE
    /\ DeclaringGroups(EVIL) = {"devDependencies"}
    /\ MapGet(COMPROMISED_PACKAGES_MAP, EVIL) = <<>>
    /\ Cardinality(ManifestFindings(EVIL)) = 1
    /\ results.summary.criticalLevel = "high"

\* the path of the node_modules directory at level k of the chain
RECURSIVE NmPath(_)
NmPath(k) == IF k = 0 THEN NODE_MODULES ELSE join(join(NmPath(k - 1), LIB), NODE_MODULES)

\* the levels whose node_modules directory holds a content store
StoreLevels == {k \in 0..(MaxChain + 1) : Nm(k) \in DOMAIN dirs /\ Lookup(Nm(k), PNPM) # NONE}

\* T with its first "/" replaced by "+", followed by "@"
StorePrefix(T) ==
    [i \in 1..(Len(T) + 1) |->
        IF i = Len(T) + 1 THEN "@"
        ELSE IF T[i] = "/" /\ \A h \in 1..(i - 1) : T[h] # "/" THEN "+"
        ELSE T[i]]

\* the paths .pnpm/<child>/node_modules/T of the store of level k, for the
\* children named T', "@", anything that hold node_modules/T; a store that
\* cannot be read has no children to name
StoreCopies(k, T) ==
    LET store == Lookup(Nm(k), PNPM)
    IN  IF ~dirs[store].readable THEN {} ELSE
        {join(join(join(join(NmPath(k), PNPM), dirs[store].entries[c].name),
                   NODE_MODULES), T) :
            c \in {c \in 1..Len(dirs[store].entries) :
                     /\ dirs[store].entries[c].kind \in {"dir", "link"}
                     /\ Len(dirs[store].entries[c].name) > Len(T)
                     /\ SubSeq(dirs[store].entries[c].name, 1, Len(T) + 1) = StorePrefix(T)
                     /\ LookupPath(dirs[store].entries[c].to,
                                   <<NODE_MODULES>> \o Components(T)) # NONE}}

\* the references of the walk whose path goes through a content store
StoreRefs ==
    {i \in 1..Len(walkResults) :
        \E h \in 1..Len(walkResults[i].path) : walkResults[i].path[h] = PNPM[1]}

\* the inodes inside a content store
StoreInodes == {STORE_DIR, SLOT_DIR, SLOT_NM, LIB_SLOT, LIB_SLOT_NM, EMPTY_SLOT, STORE_NM}

\* C13: a search for T never enumerates a directory inside a content store,
\* and when it has returned, its references through a store are, once each,
\* exactly the paths .pnpm/<child>/node_modules/T of the store children
\* whose name starts with T (first "/" replaced by "+") followed by "@" and
\* that hold node_modules/T, for the stores in the directories it enumerated.
C13_StoreMatchedByName ==
    pc = "find" =>
        /\ \A a \in 1..Len(visitLog) : visitLog[a] \notin StoreInodes
        /\ stack = <<>> =>
              /\ {walkResults[i].path : i \in StoreRefs} =
                    UNION {StoreCopies(k, pkg) :
                             k \in {k \in StoreLevels :
                                      \E a \in 1..Len(visitLog) : visitLog[a] = Nm(k)}}
              /\ \A i, j \in StoreRefs :
                    walkResults[i].path = walkResults[j].path => i = j

\* the search for @s/evil has returned the copy under the store child
\* @s+evil@1.0, and nothing for the other three children of the store
C13_Witness ==
    /\ pc = "find"
    /\ stack = <<>>
    /\ pkg = SCOPED_EVIL
    /\ Cardinality(StoreRefs) = 1
    /\ \E i \in StoreRefs :
          walkResults[i].path =
              join(join(join(join(NODE_MODULES, PNPM),
                             <<"@", "s", "+", "evil", "@", "1", "0">>),
                        NODE_MODULES), SCOPED_EVIL)

\* the number of findings in the results object, which is what the report holds
FindingsCount ==
    Len(results.foundInNodeModules) + Len(results.foundInPackageJson)
        + (IF LegacyRun THEN Len(results.foundInPackageLock) ELSE 0)

\* C14: a run that reaches the process.exit at the end of the script exits
\* with code 0 if the results hold no finding and with code 1 if they hold
\* any; at that exit summary.safe is true iff totalIssues = 0 iff the risk
\* level is none, and totalIssues is the number of findings in the results.
C14_ExitCodeAndSummaryAgree ==
    [][(pc \in {"exit", "legacy_exit"} /\ pc' = "done")
          => /\ exitCode' = (IF FindingsCount = 0 THEN 0 ELSE 1)
             /\ results' = results
             /\ results.summary.totalIssues = FindingsCount
             /\ results.summary.safe <=> (results.summary.totalIssues = 0)
             /\ (results.summary.totalIssues = 0)
                   <=> (results.summary.criticalLevel = "none")]_vars

\* a run of the current script went through its summary with a blacklist
\* loaded, found nothing and ended with exit code 0
C14_Witness ==
    /\ pc = "done"
    /\ ~LegacyRun
    /\ exitCode = 0
    /\ Blacklisted # {}
    /\ FindingsCount = 0
    /\ results.summary.safe
    /\ results.summary.criticalLevel = "none"

\* the blacklist file parses into a list of entries with a name, a string,
\* and versions, a list of strings
WellFormedList ==
    /\ packageListFile.state = "ok"
    /\ \A i \in 1..Len(packageListFile.packages) :
          /\ packageListFile.packages[i].name # ABSENT
          /\ "versions" \in DOMAIN packageListFile.packages[i]
          /\ \A h \in 1..Len(packageListFile.packages[i].versions) :
                IsString(packageListFile.packages[i].versions[h])

\* the target directory is absent or is not a directory
BadTarget == targetDir = NONE \/ ~dirs[targetDir].isDir

\* C15 as stated: when the target directory is absent or not a directory,
\* or the blacklist file is absent or does not parse into a list of
\* {name, versions}, the current script never starts a walk, never has a
\* finding, never writes a report, and ends with exit code 1.
C15_FatalBeforeScanning ==
    (~LegacyRun /\ (BadTarget \/ ~WellFormedList))
        => /\ pc \in {"start", "load", "done"}
           /\ stack = <<>>
           /\ visitLog = <<>>
           /\ results = NoResults
           /\ ~reportWritten
           /\ pc = "done" => exitCode = 1

\* C16 as stated: once the target directory and the blacklist are accepted,
\* whatever the tree holds, the current script is never ended by an error
\* of one node: it does not die of an uncaught exception, and when it has
\* ended it has gone through the summary and the report step and exits with
\* the code the summary gives.
C16_NodeFailuresNeverAbort ==
    (~LegacyRun /\ ~BadTarget /\ WellFormedList)
        => /\ pc # "uncaught"
           /\ pc = "done" =>
                 /\ results.summary.totalIssues = FindingsCount
                 /\ exitCode = (IF FindingsCount = 0 THEN 0 ELSE 1)

\* C17: in the results of a run, of either script, no two installed
\* findings have the same package name and the same path.  The current
\* script walks once for each key of its Map; the earlier script walks once
\* for each name of the list extract_packages.cjs writes, whose names are
\* distinct.
C17_InstalledFindingsDistinct ==
    \A i, j \in 1..Len(results.foundInNodeModules) :
        (/\ results.foundInNodeModules[i].type = "installed"
         /\ results.foundInNodeModules[j].type = "installed"
         /\ results.foundInNodeModules[i].package = results.foundInNodeModules[j].package
         /\ results.foundInNodeModules[i].path = results.foundInNodeModules[j].path)
            => i = j

\* the current script ended on a blacklist that names evil on two entries,
\* with the installed copy of evil reported once
C17_Witness ==
    /\ pc = "done"
    /\ ~LegacyRun
    /\ Len(packageListFile.packages) = 2
    /\ packageListFile.packages[1].name = EVIL
    /\ packageListFile.packages[2].name = EVIL
    /\ Cardinality(InstalledFindings(EVIL, join(NODE_MODULES, EVIL))) = 1

\* the versions the lines of the text give for name, line after line
RECURSIVE versionsOfLines(_, _)
versionsOfLines(name, i) ==
    IF i > Len(lines) THEN <<>>
    ELSE (IF lineEntry(lines[i], i) # <<>> /\ lineEntry(lines[i], i)[1].name = name
          THEN lineEntry(lines[i], i)[1].versions
          ELSE <<>>)
         \o versionsOfLines(name, i + 1)

\* the names the lines of the text give
namesOfLines ==
    {lineEntry(lines[i], i)[1].name : i \in {i \in 1..Len(lines) : lineEntry(lines[i], i) # <<>>}}

\* C18 as stated: the JSON that extract_packages.cjs writes has one entry
\* for each name of the text, and the versions of the entry are the union
\* of the versions of all the lines that name it.
C18_ExtractionMergesDuplicates ==
    (pc = "done" /\ outputs.written)
        => /\ {outputs.json[i].name : i \in 1..Len(outputs.json)} = namesOfLines
           /\ \A i, j \in 1..Len(outputs.json) :
                 outputs.json[i].name = outputs.json[j].name => i = j
           /\ \A i \in 1..Len(outputs.json) :
                 {outputs.json[i].versions[h] : h \in 1..Len(outputs.json[i].versions)}
                     = {versionsOfLines(outputs.json[i].name, 1)[h] :
                          h \in 1..Len(versionsOfLines(outputs.json[i].name, 1))}

\* directory d is a package directory whose package.json gives no version:
\* it is missing, cannot be read, does not parse or has no version field
NoVersion(d) ==
    /\ d # NONE
    /\ dirs[d].isDir
    /\ dirs[d].manifest.state # "ok" \/ Falsy(dirs[d].manifest.version)

\* the levels whose node_modules directory the walk has read
LevelsRead ==
    {k \in 0..(MaxChain + 1) :
        /\ Nm(k) \in DOMAIN dirs
        /\ dirs[Nm(k)].readable
        /\ \E a \in 1..Len(visitLog) : visitLog[a] = Nm(k)}

\* the directory of package T in the node_modules of level k, NONE when
\* there is none or its scope directory cannot be read
PackageDir(k, T) ==
    IF Len(Components(T)) = 2 /\ readdirFails(Lookup(Nm(k), Components(T)[1])) THEN NONE
    ELSE LookupPath(Nm(k), Components(T))

\* C19: when a search for T has returned, every directory of T it came to
\* whose package.json is missing, unreadable, unparsable or without a
\* version is among the references with the version 'unknown', under
\* node_modules, a scope directory or the content store alike; and the walk
\* went on to the entries after it: the node_modules of the next level, when
\* there is one within maxDepth, was read too.
C19_NoVersionIsUnknown ==
    (pc = "find" /\ stack = <<>>) =>
        /\ \A k \in LevelsRead :
              NoVersion(PackageDir(k, pkg)) =>
                  \E i \in 1..Len(walkResults) :
                     /\ walkResults[i].path = join(NmPath(k), pkg)
                     /\ walkResults[i].version = UNKNOWN
        /\ \A k \in LevelsRead \cap StoreLevels :
              \A p \in StoreCopies(k, pkg) :
                 NoVersion(EVIL_DIR) =>
                     \E i \in StoreRefs :
                        walkResults[i].path = p /\ walkResults[i].version = UNKNOWN
        /\ \A k \in LevelsRead :
              (k < maxDepth /\ Nm(k + 1) \in DOMAIN dirs)
                  => \E a \in 1..Len(visitLog) : visitLog[a] = Nm(k + 1)

\* the search for evil has returned the copy of the first level, whose
\* package.json does not parse, with version 'unknown', and has read the
\* node_modules of lib, the entry after it
C19_Witness ==
    /\ pc = "find"
    /\ stack = <<>>
    /\ pkg = EVIL
    /\ Lookup(Nm(0), EVIL) = EVIL_DIR
    /\ dirs[EVIL_DIR].isDir
    /\ dirs[EVIL_DIR].manifest.state = "bad"
    /\ walkResults = <<installedRef(join(NODE_MODULES, EVIL), UNKNOWN, 0)>>
    /\ visitLog = <<Nm(0), Nm(1)>>

\* C20 as stated: every reference a search returns is for a directory, come
\* to as a directory or through a symbolic link to one: nothing is returned
\* for a plain file, for a symbolic link to a file or for a symbolic link
\* to nothing, whatever its name.
C20_OnlyDirectoriesAreReferenced ==
    pc = "find" =>
        \A i \in 1..Len(walkResults) :
           /\ LookupPath(targetDir, Components(walkResults[i].path)) # NONE
           /\ dirs[LookupPath(targetDir, Components(walkResults[i].path))].isDir

\* C21 as stated: the dependency scan treats a .pnpm entry as the search
\* does: it never takes it for a package directory whose node_modules it
\* walks into, so no directory inside the content store is enumerated.
C21_ScanLeavesStoreAlone ==
    pc = "scan" => \A a \in 1..Len(visitLog) : visitLog[a] \notin StoreInodes

\* the names a package.json or a blacklist of the model can hold
Names == {EVIL, LIB, OTHERPKG, SCOPED_EVIL}

\* the dependency references of the scan found in the package at path p
\* for name N
RefsFor(p, N) ==
    {i \in 1..Len(walkResults) :
        walkResults[i].foundIn = p /\ walkResults[i].compromisedPackage = N}

\* C22: when the dependency scan has returned, for every package directory
\* with a parsable package.json in a node_modules directory it read, and
\* for every name, there is exactly one reference when the name is
\* blacklisted and is a key of one of the four dependency groups, whatever
\* the range and however many groups name it, and none otherwise; no
\* reference is for a name outside the blacklist.
C22_OneReferencePerNamedDependency ==
    (pc = "scan" /\ stack = <<>>) =>
        /\ \A i \in 1..Len(walkResults) : walkResults[i].compromisedPackage \in Blacklisted
        /\ \A k \in LevelsRead : \A e \in 1..Len(dirs[Nm(k)].entries) :
              LET entry == dirs[Nm(k)].entries[e]
                  manifest == dirs[entry.to].manifest
              IN  (/\ entry.kind \in {"dir", "link"}
                   /\ entry.name[1] # "@"
                   /\ entry.to # NONE
                   /\ dirs[entry.to].isDir
                   /\ manifest.state = "ok")
                      => \A N \in Names :
                            Cardinality(RefsFor(join(NmPath(k), entry.name), N)) =
                                IF /\ N \in Blacklisted
                                   /\ \E g \in Groups : MapHas(manifest[g], N)
                                THEN 1 ELSE 0

\* the scan has returned one reference for evil in node_modules/lib, whose
\* package.json names evil in two groups, and none for the other package
C22_Witness ==
    /\ pc = "scan"
    /\ stack = <<>>
    /\ MapHas(dirs[Lib(0)].manifest.dependencies, EVIL)
    /\ MapHas(dirs[Lib(0)].manifest.optionalDependencies, EVIL)
    /\ Cardinality(RefsFor(join(NODE_MODULES, LIB), EVIL)) = 1
    /\ \A i \in RefsFor(join(NODE_MODULES, LIB), EVIL) : walkResults[i].version = <<"*">>
    /\ RefsFor(join(NODE_MODULES, LIB), OTHERPKG) = {}

\* the levels whose node_modules directory a walk from the root comes to
\* and reads: within maxDepth, below directories that can be read
LevelsOfTree ==
    {k \in 0..maxDepth :
        /\ Nm(k) \in DOMAIN dirs
        /\ \A j \in 0..k : dirs[Nm(j)].readable}

\* C23: the Set of visited paths is new for each name that is searched: when
\* the search for a name has returned, whichever names were searched before
\* it, the Set holds only directories this search came to, the node_modules
\* directories it read are those the tree has within maxDepth, and a package
\* that every level holds is referenced at each of them.
C23_VisitedSetPerSearch ==
    (pc = "find" /\ stack = <<>>) =>
        /\ \A d \in visitedPaths : \E a \in 1..Len(visitLog) : visitLog[a] = d
        /\ LevelsRead = LevelsOfTree
        /\ pkg = LIB =>
              \A k \in LevelsOfTree :
                  \E i \in 1..Len(walkResults) : walkResults[i].path = join(NmPath(k), LIB)

C23_Witness ==
    /\ pc = "find" /\ stack = <<>>
    /\ keyIndex = 2 /\ pkg = LIB
    /\ Nm(1) \in visitedPaths
    /\ Len(walkResults) = 2
    /\ Lookup(Nm(0), EVIL) = EVIL_DIR

\* the directories of the packages a node_modules directory d holds outside
\* the content store: its entries and the entries of its scope directories
PackagesIn(d) ==
    LET entries == dirs[d].entries
        plain == {e \in 1..Len(entries) :
                     /\ isDirectoryOrSymbolicLink(entries[e])
                     /\ entries[e].name # PNPM}
    IN  {entries[e].to : e \in {h \in plain : ~startsWith(entries[h].name, <<"@">>)}}
            \cup UNION {{dirs[entries[e].to].entries[c].to :
                            c \in {h \in 1..Len(dirs[entries[e].to].entries) :
                                      isDirectoryOrSymbolicLink(dirs[entries[e].to].entries[h])}} :
                           e \in {h \in plain : /\ startsWith(entries[h].name, <<"@">>)
                                                /\ ~readdirFails(entries[h].to)}}

\* the level whose node_modules holds the directory of evil, plain or scoped
PayloadLevel ==
    CHOOSE k \in 0..(MaxChain + 1) : Nm(k) \in DOMAIN dirs /\ EVIL_DIR \in PackagesIn(Nm(k))

\* the path of the directory of evil
EvilPath ==
    join(NmPath(PayloadLevel),
         IF Lookup(Nm(PayloadLevel), SCOPE) # NONE THEN SCOPED_EVIL ELSE EVIL)

\* the depth a walk from the root comes to a node_modules directory at
WalkDepth(d) == IF d = EVIL_NM THEN PayloadLevel + 1 ELSE d[2]

Logged(d) == \E a \in 1..Len(visitLog) : visitLog[a] = d

\* C24: when a search has returned, the node_modules of every package in a
\* directory it read above maxDepth, scoped or not, named as the target or
\* not, was walked too; a copy of the target in the node_modules of a
\* package is referenced with the depth of that package plus one.
C24_RecursionUnconditional ==
    (pc = "find" /\ stack = <<>>) =>
        /\ \A d \in DOMAIN dirs :
              (Logged(d) /\ ~readdirFails(d) /\ WalkDepth(d) < maxDepth) =>
                  \A p \in PackagesIn(d) :
                      Lookup(p, NODE_MODULES) # NONE => Logged(Lookup(p, NODE_MODULES))
        /\ (pkg = EVIL /\ Logged(EVIL_NM)) =>
              \E i \in 1..Len(walkResults) :
                  /\ walkResults[i].path = join(join(EvilPath, NODE_MODULES), EVIL)
                  /\ walkResults[i].depth = PayloadLevel + 1
        /\ pkg = LIB =>
              \A k \in LevelsRead :
                  \E i \in 1..Len(walkResults) :
                      /\ walkResults[i].path = join(NmPath(k), LIB)
                      /\ walkResults[i].depth = k

C24_Witness ==
    /\ pc = "find" /\ stack = <<>>
    /\ pkg = EVIL
    /\ Nm(1) \in DOMAIN dirs
    /\ Lookup(Nm(1), EVIL) = EVIL_DIR
    /\ Logged(EVIL_NM)
    /\ Len(walkResults) = 2
    /\ walkResults[1].path = join(NmPath(1), EVIL) /\ walkResults[1].depth = 1
    /\ walkResults[2].depth = 2

\* the same beneath a scoped package the target does not name
C24_ScopedWitness ==
    /\ pc = "find" /\ stack = <<>>
    /\ pkg = EVIL
    /\ Lookup(Nm(0), SCOPE) = SCOPE_DIR
    /\ Len(walkResults) = 1
    /\ walkResults[1].path = join(join(join(NODE_MODULES, SCOPED_EVIL), NODE_MODULES), EVIL)
    /\ walkResults[1].depth = 1

\* the path a walk from the root reads the node_modules directory d under
DirPath(d) == IF d = EVIL_NM THEN join(EvilPath, NODE_MODULES) ELSE NmPath(d[2])

\* a path that leads through the content store
InStore(path) == \E i \in 1..Len(path) : path[i] = ".pnpm"

\* d, a directory or a link, is entered under the name T in node_modules
\* directory nm: as T itself, or as the second part of T in the scope
\* directory the first part names
EnteredAs(nm, T) ==
    LET parts == Components(T)
        holder == IF Len(parts) = 1 THEN nm ELSE Lookup(nm, parts[1])
        last == parts[Len(parts)]
    IN  /\ Len(parts) <= 2
        /\ ~readdirFails(holder)
        /\ Len(parts) = 2 =>
              \E e \in 1..Len(dirs[nm].entries) :
                  /\ dirs[nm].entries[e].name = parts[1]
                  /\ isDirectoryOrSymbolicLink(dirs[nm].entries[e])
        /\ \E e \in 1..Len(dirs[holder].entries) :
              /\ dirs[holder].entries[e].name = last
              /\ isDirectoryOrSymbolicLink(dirs[holder].entries[e])

\* C25: when a search for T has returned, its references outside the content
\* store are the paths nm/T of the node_modules directories nm it read that
\* hold T under its whole name, each once: evil is no reference for
\* @s/evil, nor @s/evil for evil.
C25_ExactNameOutsideStore ==
    (pc = "find" /\ stack = <<>>) =>
        LET plain == {i \in 1..Len(walkResults) : ~InStore(walkResults[i].path)}
            expected == {join(DirPath(d), pkg) :
                            d \in {n \in DOMAIN dirs :
                                      Logged(n) /\ ~readdirFails(n) /\ EnteredAs(n, pkg)}}
        IN  /\ {walkResults[i].path : i \in plain} = expected
            /\ Cardinality(plain) = Cardinality(expected)

C25_Witness ==
    /\ pc = "find" /\ stack = <<>>
    /\ pkg = EVIL
    /\ Lookup(Nm(0), SCOPE) = SCOPE_DIR
    /\ Lookup(SCOPE_DIR, EVIL) = EVIL_DIR
    /\ Lookup(EVIL_DIR, NODE_MODULES) = NONE
    /\ dirs[SCOPE_DIR].readable
    /\ walkResults = <<>>

\* evil on its own is not what a search for @s/evil refers to
C25_ScopedTargetWitness ==
    /\ pc = "find" /\ stack = <<>>
    /\ pkg = SCOPED_EVIL
    /\ Lookup(Nm(0), EVIL) = EVIL_DIR
    /\ walkResults = <<>>

\* the node_modules directories that a chain of at most n nested
\* node_modules directories leads to from the root's
RECURSIVE Reach(_)
Reach(n) ==
    IF n = 0 THEN {d \in {Nm(0)} : Lookup(ROOT, NODE_MODULES) = d}
    ELSE LET above == Reach(n - 1)
         IN  above \cup
                 {nested \in UNION {{Lookup(p, NODE_MODULES) : p \in PackagesIn(d)} :
                                       d \in {a \in above : ~readdirFails(a)}} :
                     nested # NONE}

\* the real directory a reference names
RefDir(i) == LookupPath(ROOT, Components(walkResults[i].path))

\* C26: when a search for T has returned, every directory entered as T in a
\* node_modules directory that a chain of at most maxDepth nested
\* node_modules directories leads to is among the references, also when a
\* longer chain leads to that node_modules directory and the walk takes it
\* first.
C26_ReachableCopiesFound ==
    (pc = "find" /\ stack = <<>>) =>
        \A d \in Reach(maxDepth) :
            (~readdirFails(d) /\ EnteredAs(d, pkg)) =>
                \E i \in 1..Len(walkResults) : RefDir(i) = LookupPath(d, Components(pkg))

\* the real directory the finding i of foundInNodeModules names
FindingDir(i) == LookupPath(targetDir, Components(results.foundInNodeModules[i].path))

\* C27: a run of the current script that has exited holds at most one
\* installed finding for a real package directory, also when the directory
\* is in the content store and a symbolic link in node_modules leads to it.
C27_OneFindingPerInstallation ==
    (pc = "done" /\ ~LegacyRun) =>
        \A i, j \in 1..Len(results.foundInNodeModules) :
            (/\ results.foundInNodeModules[i].type = "installed"
             /\ results.foundInNodeModules[j].type = "installed"
             /\ FindingDir(i) # NONE
             /\ FindingDir(i) = FindingDir(j)) => i = j

\* C28: when a search has returned, isCompromised raises no error on the
\* version of any of its references, whatever the JSON type of the version
\* the package.json holds.
C28_IsCompromisedTotalOnReferences ==
    (pc = "find" /\ stack = <<>>) =>
        \A i \in 1..Len(walkResults) : ~isCompromisedThrows(pkg, walkResults[i].version)

\* C29: once the blacklist is loaded, the Map holds, under the name of every
\* entry of the file, each version of that entry without its leading v: also
\* when several entries carry the same name.
C29_LoadKeepsEveryVersion ==
    COMPROMISED_PACKAGES_MAP # <<>> =>
        \A i \in 1..Len(packageListFile.packages) :
            LET entry == packageListFile.packages[i]
            IN  /\ MapHas(COMPROMISED_PACKAGES_MAP, entry.name)
                /\ \A h \in 1..Len(entry.versions) :
                      Includes(MapGet(COMPROMISED_PACKAGES_MAP, entry.name),
                               replaceLeadingV(entry.versions[h]))

\* C30: in a run of the earlier script every finding of the package-lock
\* scan names a package that the lockfile holds under that very name, as a
\* key of dependencies or as what follows the last node_modules/ of a key of
\* packages; and no two findings of the scan name the same package.
C30_LockfileExactIdentity ==
    (LegacyRun /\ packageLock.state = "ok") =>
        /\ \A i \in 1..Len(results.foundInPackageLock) :
              LET N == results.foundInPackageLock[i].package
              IN  \/ MapHas(packageLock.dependencies, N)
                  \/ \E k \in 1..Len(packageLock.packages) :
                        keyParts(packageLock.packages[k].key) = N
        /\ \A i, j \in 1..Len(results.foundInPackageLock) :
              results.foundInPackageLock[i].package = results.foundInPackageLock[j].package
                  => i = j

====
